---- MODULE Spec2Model ----
(***************************************************************************)
(* Transcript interpreter of src/annotations.py: piece ordering through    *)
(* UpDownPair records (sort_pieces and the link helpers), feature stacking *)
(* (sorted_features, stack_matches, sort_by_bearing), the status machine   *)
(* (TranscriptStatus) and the triple stream transition_5p_to_3p.           *)
(*                                                                         *)
(* A feature is a record; its id makes it an identity.  The many-to-many   *)
(* relationship piece <-> feature is the single variable pieceFeatures     *)
(* (piece.features); feature.transcribed_pieces is its inverse.            *)
(***************************************************************************)
EXTENDS Integers, Sequences, FiniteSets, TLC

VARIABLES
    pieces,         \* transcript.data.transcribed_pieces (a list of piece ids)
    pairs,          \* every UpDownPair record of the store (a list)
    pieceFeatures,  \* piece id -> piece.features (a list of feature records)
    lastCall,       \* the latest direct call of sort_pieces / get_*_link and its outcome
    gen,            \* the frame of one transition_5p_to_3p generator
    statusObjs,     \* TranscriptStatus objects: [1] is the generator's local `status`
    yielded,        \* the triples the generator has yielded so far
    edges,          \* relationship name -> its <<owner, member>> entries, in order
    dataObjs,       \* data record id -> its handler back-pointer and plain attributes
    handlerObjs,    \* handler id -> its data, delete_me and plain attributes
    calls           \* the link_to / de_link calls made so far, each with its outcome

interpVars == <<pieces, pairs, pieceFeatures, lastCall, gen, statusObjs, yielded>>

graphVars == <<edges, dataObjs, handlerObjs, calls>>

vars == <<pieces, pairs, pieceFeatures, lastCall, gen, statusObjs, yielded,
          edges, dataObjs, handlerObjs, calls>>

----------------------------------------------------------------------------
(* Bounds of the model *)

\* number of TranscribedPiece records in the store
MaxPieces == 3

\* number of UpDownPair records in the store
MaxPairs == 3

\* number of features linked to the pieces of a streamed transcript
MaxFeatures == 3

AllPieces == 1..MaxPieces

----------------------------------------------------------------------------
(* Enumerations (type_enums) and outcomes *)

TRANSCRIBED == "transcribed"
CODING == "coding"
INTRON == "intron"
TRANS_INTRON == "trans_intron"
ERROR == "error"

START == "start"
OPEN_STATUS == "open_status"
CLOSE_STATUS == "close_status"
END == "end"
POINT == "point"

\* the value standing for Python's None in the integer field phase
NoPhase == -1

Returned == "return"
ReturnedNone == "None"
IndecipherableLinkageError == "IndecipherableLinkageError"
AssertionError == "AssertionError"
IndexError == "IndexError"
ValueError == "ValueError"
StopIteration == "StopIteration"
Yielded == "yield"

\* owners of UpDownPair records: the interpreted transcript and another one
ThisTranscript == "T"
OtherTranscript == "other"

----------------------------------------------------------------------------
(* Generic list helpers (Python list semantics) *)

Range(s) == {s[i] : i \in DOMAIN s}

Reverse(s) == [i \in 1..Len(s) |-> s[Len(s) + 1 - i]]

RECURSIVE Concat(_)
Concat(ss) == IF ss = <<>> THEN <<>> ELSE Head(ss) \o Concat(Tail(ss))

\* Python's sorted(s, key=...) is stable: an entry goes behind every entry whose
\* key is <= its own
RECURSIVE InsertKeyed(_, _)
InsertKeyed(sorted, x) ==
    IF sorted = <<>> THEN <<x>>
    ELSE IF Head(sorted).key <= x.key
         THEN <<Head(sorted)>> \o InsertKeyed(Tail(sorted), x)
         ELSE <<x>> \o sorted

RECURSIVE SortKeyed(_)
SortKeyed(s) ==
    IF s = <<>> THEN <<>>
    ELSE InsertKeyed(SortKeyed(SubSeq(s, 1, Len(s) - 1)), s[Len(s)])

\* sorted(s, key=...), keys[i] being the key of s[i]
StableSort(s, keys) ==
    LET keyed == [i \in 1..Len(s) |-> [key |-> keys[i], item |-> s[i]]]
        done == SortKeyed(keyed)
    IN  [i \in 1..Len(s) |-> done[i].item]

\* the members of a finite set of records, by ascending id
RECURSIVE SeqById(_)
SeqById(S) ==
    IF S = {} THEN <<>>
    ELSE LET first == CHOOSE f \in S : \A g \in S : f.id <= g.id
         IN  <<first>> \o SeqById(S \ {first})

----------------------------------------------------------------------------
(* The store's records *)

\* annotations_orm.Feature.pos_cmp_key: the strand-aware position key of a feature
PosCmpKey(f) == f.position

\* annotations_orm.UpDownPair.pos_cmp_key: distinct pairs have distinct keys
PairPosCmpKey(p) == p.id

\* feature.transcribed_pieces: the inverse of piece.features
TranscribedPiecesOf(f) ==
    SelectSeq([p \in 1..MaxPieces |-> p], LAMBDA p : f \in Range(pieceFeatures[p]))

\* every feature record of the store
StoreFeatures ==
    UNION {Range(pieceFeatures[p]) : p \in AllPieces}
    \cup {pr.upstream : pr \in Range(pairs)} \cup {pr.downstream : pr \in Range(pairs)}

\* session.query(kind).all()
QueryAll(kind) == SeqById({f \in StoreFeatures : f.kind = kind})

\* variant: the pairs of every transcript of the store
AnyTranscriptPairs == pairs

\* transcript.data.pairs: the pairs owned by the interpreted transcript
TranscriptPairs == SelectSeq(pairs, LAMBDA pr : pr.transcribed = ThisTranscript)

----------------------------------------------------------------------------
(* Feature stacker: grouping of consecutive matching entries *)

positional_match(feature, previous) == PosCmpKey(feature) = PosCmpKey(previous)

pair_positional_match(link, previous) == PairPosCmpKey(link) = PairPosCmpKey(previous)

\* variant: any two entries match
bearing_match_any(feature, previous) == TRUE

bearing_match(feature, previous) == feature.bearing = previous.bearing

\* the call match_fn(feature, previous) of stack_matches
MatchFn(match_fn, feature, previous) ==
    CASE match_fn = "positional_match" -> positional_match(feature, previous)
      [] match_fn = "pair_positional_match" -> pair_positional_match(feature, previous)
      [] match_fn = "bearing_match" -> bearing_match(feature, previous)

\* stack_matches: the maximal runs of entries each of which matches the entry
\* right before it, in order; nothing for an empty list
StackMatches(s, match_fn) ==
    LET StartOf(starts, k) ==
            CHOOSE i \in starts : Cardinality({j \in starts : j < i}) = k - 1
        EndOf(starts, k) ==
            IF k = Cardinality(starts) THEN Len(s) ELSE StartOf(starts, k + 1) - 1
        Runs(starts) ==
            [k \in 1..Cardinality(starts) |-> SubSeq(s, StartOf(starts, k), EndOf(starts, k))]
    IN  Runs({i \in 1..Len(s) : i = 1 \/ ~MatchFn(match_fn, s[i], s[i - 1])})

----------------------------------------------------------------------------
(* Piece orderer: link resolution *)

\* variant: matches the candidates against the upstream slot in both directions
RECURSIVE FindMatchingLinksUpstreamSlotOnly(_, _)
FindMatchingLinksUpstreamSlotOnly(updown_candidates, get_upstreams) ==
    IF updown_candidates = <<>> THEN <<>>
    ELSE SelectSeq(TranscriptPairs, LAMBDA x : x.upstream = Head(updown_candidates))
         \o FindMatchingLinksUpstreamSlotOnly(Tail(updown_candidates), get_upstreams)

\* the links of the candidates, candidate by candidate, each in the order of
\* transcript.data.pairs
RECURSIVE FindMatchingLinks(_, _)
FindMatchingLinks(updown_candidates, get_upstreams) ==
    IF updown_candidates = <<>> THEN <<>>
    ELSE LET cand == Head(updown_candidates)
             mine == IF get_upstreams
                     THEN SelectSeq(TranscriptPairs, LAMBDA x : x.downstream = cand)
                     ELSE SelectSeq(TranscriptPairs, LAMBDA x : x.upstream = cand)
         IN  mine \o FindMatchingLinks(Tail(updown_candidates), get_upstreams)

\* variant: takes the first of several links
LinksList2LinkFirst(links) ==
    IF Len(links) = 0 THEN [kind |-> ReturnedNone, link |-> <<>>]
    ELSE [kind |-> Returned, link |-> <<links[1]>>]

\* _links_list2link: no link, the one link, or the ambiguity fault
LinksList2Link(links) ==
    LET Collapse(stacked) == [k \in 1..Len(stacked) |-> stacked[k][1]]
        Decide(collapsed) ==
            IF Len(collapsed) = 0 THEN [kind |-> ReturnedNone, link |-> <<>>]
            ELSE IF Len(collapsed) = 1 THEN [kind |-> Returned, link |-> <<collapsed[1]>>]
            ELSE [kind |-> IndecipherableLinkageError, link |-> <<>>]
    IN  Decide(Collapse(StackMatches(links, "pair_positional_match")))

GetUpstreamLink(current_piece) ==
    LET downstreams == QueryAll("DownstreamFeature")
        downstreams_current ==
            SelectSeq(downstreams, LAMBDA x : current_piece \in Range(TranscribedPiecesOf(x)))
    IN  LinksList2Link(FindMatchingLinks(downstreams_current, TRUE))

GetDownstreamLink(current_piece) ==
    LET upstreams == QueryAll("UpstreamFeature")
        upstreams_current ==
            SelectSeq(upstreams, LAMBDA x : current_piece \in Range(TranscribedPiecesOf(x)))
    IN  LinksList2Link(FindMatchingLinks(upstreams_current, FALSE))

\* _get_one_piece_from_stream: the one piece of the transcript holding the feature
GetOnePieceFromStream(stream) ==
    LET matches == SelectSeq(TranscribedPiecesOf(stream), LAMBDA x : x \in Range(pieces))
    IN  IF Len(matches) = 1 THEN [kind |-> Returned, piece |-> matches[1]]
        ELSE [kind |-> AssertionError, piece |-> 0]

\* variant: always appends
ExtendByOneAppend(ordered_pieces, new, downstream) == Append(ordered_pieces, new)

ExtendByOne(ordered_pieces, new, downstream) ==
    IF downstream THEN Append(ordered_pieces, new) ELSE <<new>> \o ordered_pieces

\* variant: stops extending at a piece that is already ordered, without a fault
RECURSIVE ExtendToEndStopsAtRevisit(_, _)
ExtendToEndStopsAtRevisit(ordered_pieces, downstream) ==
    LET current == IF downstream THEN ordered_pieces[Len(ordered_pieces)]
                   ELSE ordered_pieces[1]
        WithPiece(nextpiece) ==
            IF nextpiece.kind = AssertionError
            THEN [kind |-> AssertionError, ordered |-> ordered_pieces]
            ELSE IF nextpiece.piece \in Range(ordered_pieces)
            THEN [kind |-> Returned, ordered |-> ordered_pieces]
            ELSE ExtendToEndStopsAtRevisit(ExtendByOne(ordered_pieces, nextpiece.piece, downstream),
                    downstream)
        WithLink(nextlink) ==
            IF nextlink.kind = IndecipherableLinkageError
            THEN [kind |-> IndecipherableLinkageError, ordered |-> ordered_pieces]
            ELSE IF nextlink.kind = ReturnedNone
            THEN [kind |-> Returned, ordered |-> ordered_pieces]
            ELSE WithPiece(GetOnePieceFromStream(IF downstream
                                                 THEN nextlink.link[1].downstream
                                                 ELSE nextlink.link[1].upstream))
    IN  WithLink(IF downstream THEN GetDownstreamLink(current)
                 ELSE GetUpstreamLink(current))

\* _extend_to_end: the loop, one iteration per unfolding
RECURSIVE ExtendToEnd(_, _)
ExtendToEnd(ordered_pieces, downstream) ==
    LET current == IF downstream THEN ordered_pieces[Len(ordered_pieces)]
                   ELSE ordered_pieces[1]
        WithPiece(nextpiece) ==
            IF nextpiece.kind = AssertionError
            THEN [kind |-> AssertionError, ordered |-> ordered_pieces]
            ELSE IF nextpiece.piece \in Range(ordered_pieces)
            THEN [kind |-> IndecipherableLinkageError, ordered |-> ordered_pieces]
            ELSE ExtendToEnd(ExtendByOne(ordered_pieces, nextpiece.piece, downstream),
                    downstream)
        WithLink(nextlink) ==
            IF nextlink.kind = IndecipherableLinkageError
            THEN [kind |-> IndecipherableLinkageError, ordered |-> ordered_pieces]
            ELSE IF nextlink.kind = ReturnedNone
            THEN [kind |-> Returned, ordered |-> ordered_pieces]
            ELSE WithPiece(GetOnePieceFromStream(IF downstream
                                                 THEN nextlink.link[1].downstream
                                                 ELSE nextlink.link[1].upstream))
    IN  WithLink(IF downstream THEN GetDownstreamLink(current)
                 ELSE GetUpstreamLink(current))

\* variant: no foreign piece, but not every piece
CoversOnlyPieces(ordered_pieces) == Range(ordered_pieces) \subseteq Range(pieces)

\* the closing assertion of sort_pieces: set(ordered_pieces) == set(pieces)
CoversAllPieces(ordered_pieces) == Range(ordered_pieces) = Range(pieces)

\* variant: sort_pieces also fails on a piece whose features disagree on strand
\* or region
SortPiecesCheckingFeatures ==
    LET Agree(fs) == \A i \in 1..Len(fs) : /\ fs[i].coordinates = fs[1].coordinates
                                          /\ fs[i].is_plus_strand = fs[1].is_plus_strand
        Finish(up) ==
            IF up.kind # Returned THEN [kind |-> up.kind, value |-> <<>>]
            ELSE IF ~CoversAllPieces(up.ordered) THEN [kind |-> AssertionError, value |-> <<>>]
            ELSE IF \E p \in Range(pieces) : ~Agree(pieceFeatures[p])
            THEN [kind |-> AssertionError, value |-> <<>>]
            ELSE [kind |-> Returned, value |-> up.ordered]
        Upward(down) ==
            IF down.kind # Returned THEN [kind |-> down.kind, value |-> <<>>]
            ELSE Finish(ExtendToEnd(down.ordered, FALSE))
    IN  Upward(ExtendToEnd(SubSeq(pieces, 1, 1), TRUE))

\* sort_pieces: the outcome and, when it returns, the ordered pieces
SortPieces ==
    LET Finish(up) ==
            IF up.kind # Returned THEN [kind |-> up.kind, value |-> <<>>]
            ELSE IF ~CoversAllPieces(up.ordered) THEN [kind |-> AssertionError, value |-> <<>>]
            ELSE [kind |-> Returned, value |-> up.ordered]
        Upward(down) ==
            IF down.kind # Returned THEN [kind |-> down.kind, value |-> <<>>]
            ELSE Finish(ExtendToEnd(down.ordered, FALSE))
    IN  Upward(ExtendToEnd(SubSeq(pieces, 1, 1), TRUE))

----------------------------------------------------------------------------
(* Direct calls of the piece orderer on a populated store *)

\* the UpstreamFeature / DownstreamFeature record that piece p holds
UpstreamFeatureOf(p) ==
    [id |-> 100 + 2 * p, kind |-> "UpstreamFeature", type |-> TRANSCRIBED,
     bearing |-> CLOSE_STATUS, position |-> 2, is_plus_strand |-> TRUE,
     coordinates |-> 1, phase |-> NoPhase]

DownstreamFeatureOf(p) ==
    [id |-> 101 + 2 * p, kind |-> "DownstreamFeature", type |-> TRANSCRIBED,
     bearing |-> OPEN_STATUS, position |-> 1, is_plus_strand |-> TRUE,
     coordinates |-> 1, phase |-> NoPhase]

\* an UpDownPair from the UpstreamFeature of piece `up` to the DownstreamFeature
\* of piece `down`
MakePair(id, up, down, owner) ==
    [id |-> id, upstream |-> UpstreamFeatureOf(up), downstream |-> DownstreamFeatureOf(down),
     transcribed |-> owner]

\* a pair's (up, down) pieces as one code, and back
PairCodes == 0..(MaxPieces * MaxPieces - 1)

PairOfCode(id, code, owner) ==
    MakePair(id, (code \div MaxPieces) + 1, (code % MaxPieces) + 1, owner)

\* the lists of at most n codes in ascending order, each code >= lo
RECURSIVE AscendingCodes(_, _)
AscendingCodes(n, lo) ==
    IF n = 0 THEN {<<>>}
    ELSE {<<>>} \cup UNION {{<<c>> \o rest : rest \in AscendingCodes(n - 1, c)} :
                            c \in {d \in PairCodes : d >= lo}}

\* the store's pair lists: the transcript's own pairs, then at most one pair of
\* another transcript
PairLists ==
    {[k \in 1..Len(cs) |-> PairOfCode(k, cs[k], ThisTranscript)] :
        cs \in AscendingCodes(MaxPairs, 0)}
    \cup
    {[k \in 1..Len(cs) |-> PairOfCode(k, cs[k], ThisTranscript)]
        \o <<PairOfCode(Len(cs) + 1, fc, OtherTranscript)>> :
        cs \in AscendingCodes(MaxPairs - 1, 0), fc \in PairCodes}

\* no handler and no data record of the handler layer exists
NoGraph ==
    /\ edges = <<>>
    /\ dataObjs = <<>>
    /\ handlerObjs = <<>>
    /\ calls = <<>>

NoCall == [op |-> "none", piece |-> 0, kind |-> "none", ordered |-> <<>>, link |-> <<>>]

IdleGen == [state |-> "idle", pieces |-> <<>>, groups |-> <<>>, piece |-> 0,
            last |-> "none"]

InitialStatus ==
    [genic |-> FALSE, in_intron |-> FALSE, in_trans_intron |-> FALSE,
     in_translated_region |-> FALSE, seen_start |-> FALSE, seen_stop |-> FALSE,
     erroneous |-> FALSE, phase |-> NoPhase]

OrderInit ==
    /\ pieces \in {[i \in 1..n |-> i] : n \in 1..MaxPieces}
    /\ pairs \in PairLists
    /\ pieceFeatures = [p \in AllPieces |-> <<DownstreamFeatureOf(p), UpstreamFeatureOf(p)>>]
    /\ lastCall = NoCall
    /\ gen = IdleGen
    /\ statusObjs = <<InitialStatus>>
    /\ yielded = <<>>
    /\ NoGraph

\* one direct call per populated store: sort_pieces()
CallSortPieces ==
    /\ lastCall = NoCall
    /\ \E r \in {SortPieces} :
          lastCall' = [op |-> "sort_pieces", piece |-> 0, kind |-> r.kind,
                       ordered |-> r.value, link |-> <<>>]
    /\ UNCHANGED <<pieces, pairs, pieceFeatures, gen, statusObjs, yielded>>
    /\ UNCHANGED graphVars

\* get_upstream_link(current_piece)
CallGetUpstreamLink ==
    /\ lastCall = NoCall
    /\ \E piece \in Range(pieces) :
          \E r \in {GetUpstreamLink(piece)} :
              lastCall' = [op |-> "get_upstream_link", piece |-> piece, kind |-> r.kind,
                           ordered |-> <<>>, link |-> r.link]
    /\ UNCHANGED <<pieces, pairs, pieceFeatures, gen, statusObjs, yielded>>
    /\ UNCHANGED graphVars

\* get_downstream_link(current_piece)
CallGetDownstreamLink ==
    /\ lastCall = NoCall
    /\ \E piece \in Range(pieces) :
          \E r \in {GetDownstreamLink(piece)} :
              lastCall' = [op |-> "get_downstream_link", piece |-> piece, kind |-> r.kind,
                           ordered |-> <<>>, link |-> r.link]
    /\ UNCHANGED <<pieces, pairs, pieceFeatures, gen, statusObjs, yielded>>
    /\ UNCHANGED graphVars

OrderNext == CallSortPieces \/ CallGetUpstreamLink \/ CallGetDownstreamLink

SpecOrder == OrderInit /\ [][OrderNext]_vars

----------------------------------------------------------------------------
(* Transcript status machine *)

\* variant: the transcription start leaves the status as it is
saw_tss_unrecorded(status) == status

saw_tss(status) == [status EXCEPT !.genic = TRUE]

\* variant: a start that forgets to record that it was seen
saw_start_unrecorded(status, phase) ==
    [status EXCEPT !.in_translated_region = TRUE, !.phase = phase]

saw_start(status, phase) ==
    [status EXCEPT !.seen_start = TRUE, !.in_translated_region = TRUE, !.phase = phase]

\* variant: leaving the coding region counts as a stop
exit_coding_as_stop(status) ==
    [status EXCEPT !.in_translated_region = FALSE, !.seen_stop = TRUE]

exit_coding(status) == [status EXCEPT !.in_translated_region = FALSE]

\* variant: a stop that forgets to record that it was seen
saw_stop_unrecorded(status) ==
    [status EXCEPT !.in_translated_region = FALSE, !.phase = NoPhase]

saw_stop(status) ==
    [status EXCEPT !.seen_stop = TRUE, !.in_translated_region = FALSE, !.phase = NoPhase]

saw_tts(status) == [status EXCEPT !.genic = FALSE]

splice_open(status) == [status EXCEPT !.in_intron = TRUE]

splice_close(status) == [status EXCEPT !.in_intron = FALSE]

trans_splice_open(status) == [status EXCEPT !.in_trans_intron = TRUE]

trans_splice_close(status) == [status EXCEPT !.in_trans_intron = FALSE]

error_open(status) == [status EXCEPT !.erroneous = TRUE]

\* variant: closing an error region also forgets the phase
error_close_forgets_phase(status) == [status EXCEPT !.erroneous = FALSE, !.phase = NoPhase]

error_close(status) == [status EXCEPT !.erroneous = FALSE]

\* the classification queries of the status
is_utr(status) ==
    status.genic /\ ~(status.in_intron \/ status.in_translated_region \/ status.in_trans_intron)

is_5p_utr(status) == is_utr(status) /\ ~(status.seen_start \/ status.seen_stop)

is_3p_utr(status) == is_utr(status) /\ status.seen_stop /\ status.seen_start

is_coding(status) ==
    status.genic /\ status.in_translated_region /\ ~(status.in_intron \/ status.in_trans_intron)

\* is_intronic without the test of genic
is_intronic_outside_genes(status) == status.in_intron

is_intronic(status) == status.in_intron /\ status.genic

is_trans_intronic(status) == status.in_trans_intron /\ status.genic

is_intergenic(status) == ~status.genic

\* _decoder[type][1], called with the keyword arguments of update_for_feature
DecoderOpen(type, status, phase) ==
    CASE type = TRANSCRIBED -> saw_tss(status)
      [] type = CODING -> saw_start(status, phase)
      [] type = INTRON -> splice_open(status)
      [] type = TRANS_INTRON -> trans_splice_open(status)
      [] type = ERROR -> error_open(status)

\* _decoder[type][2]
DecoderClose(type, status) ==
    CASE type = TRANSCRIBED -> saw_tts(status)
      [] type = CODING -> exit_coding(status)
      [] type = INTRON -> splice_close(status)
      [] type = TRANS_INTRON -> trans_splice_close(status)
      [] type = ERROR -> error_close(status)

\* variant: a bearing that neither opens nor closes is taken to close
UpdateForFeatureClosesOnPoint(status, feature, phase) ==
    IF feature.bearing \in {START, OPEN_STATUS}
    THEN [kind |-> Returned, status |-> DecoderOpen(feature.type, status, phase)]
    ELSE [kind |-> Returned, status |-> DecoderClose(feature.type, status)]

\* update_for_feature(feature, **kwargs); phase is the keyword argument, if any
UpdateForFeature(status, feature, phase) ==
    IF feature.bearing \in {START, OPEN_STATUS}
    THEN [kind |-> Returned, status |-> DecoderOpen(feature.type, status, phase)]
    ELSE IF feature.bearing \in {END, CLOSE_STATUS}
    THEN [kind |-> Returned, status |-> DecoderClose(feature.type, status)]
    ELSE [kind |-> ValueError, status |-> status]

\* the body of update_status's loop for one feature
UpdateStatusForOne(status, feature) ==
    LET ThenSawStop(r) == [kind |-> r.kind, status |-> saw_stop(r.status)]
    IN  IF feature.type = CODING /\ feature.bearing = START
        THEN UpdateForFeature(status, feature, 0)
        ELSE IF feature.type = CODING /\ feature.bearing = OPEN_STATUS
        THEN UpdateForFeature(status, feature, feature.phase)
        ELSE IF feature.type = CODING /\ feature.bearing = END
        THEN ThenSawStop(UpdateForFeature(status, feature, NoPhase))
        ELSE UpdateForFeature(status, feature, NoPhase)

\* update_status: the features of one group in turn, up to the first fault
RECURSIVE UpdateStatus(_, _)
UpdateStatus(status, aligned_features) ==
    LET Rest(r) == IF r.kind # Returned THEN r
                   ELSE UpdateStatus(r.status, Tail(aligned_features))
    IN  IF aligned_features = <<>> THEN [kind |-> Returned, status |-> status]
        ELSE Rest(UpdateStatusForOne(status, Head(aligned_features)))

----------------------------------------------------------------------------
(* Feature stacker *)

\* variant: only the strand is checked, not the coordinates region
SortedFeaturesStrandOnly(piece) ==
    LET features == pieceFeatures[piece]
        consistent ==
            \A i \in 1..Len(features) : features[i].is_plus_strand = features[1].is_plus_strand
        Oriented(sorted) ==
            IF sorted = <<>> THEN [kind |-> IndexError, features |-> <<>>]
            ELSE IF ~sorted[1].is_plus_strand
            THEN [kind |-> Returned, features |-> Reverse(sorted)]
            ELSE [kind |-> Returned, features |-> sorted]
    IN  IF ~consistent THEN [kind |-> AssertionError, features |-> <<>>]
        ELSE Oriented(StableSort(features,
                                 [i \in 1..Len(features) |-> PosCmpKey(features[i])]))

\* variant: no reversal on the minus strand
SortedFeaturesNoReverse(piece) ==
    LET features == pieceFeatures[piece]
        consistent ==
            /\ \A i \in 1..Len(features) : features[i].coordinates = features[1].coordinates
            /\ \A i \in 1..Len(features) :
                  features[i].is_plus_strand = features[1].is_plus_strand
        Oriented(sorted) ==
            IF sorted = <<>> THEN [kind |-> IndexError, features |-> <<>>]
            ELSE [kind |-> Returned, features |-> sorted]
    IN  IF ~consistent THEN [kind |-> AssertionError, features |-> <<>>]
        ELSE Oriented(StableSort(features,
                                 [i \in 1..Len(features) |-> PosCmpKey(features[i])]))

\* sorted_features(piece): the consistency asserts, the sort by position key,
\* the reversal on the minus strand
SortedFeatures(piece) ==
    LET features == pieceFeatures[piece]
        consistent ==
            /\ \A i \in 1..Len(features) : features[i].coordinates = features[1].coordinates
            /\ \A i \in 1..Len(features) :
                  features[i].is_plus_strand = features[1].is_plus_strand
        Oriented(sorted) ==
            IF sorted = <<>> THEN [kind |-> IndexError, features |-> <<>>]
            ELSE IF ~sorted[1].is_plus_strand
            THEN [kind |-> Returned, features |-> Reverse(sorted)]
            ELSE [kind |-> Returned, features |-> sorted]
    IN  IF ~consistent THEN [kind |-> AssertionError, features |-> <<>>]
        ELSE Oriented(StableSort(features,
                                 [i \in 1..Len(features) |-> PosCmpKey(features[i])]))

\* variant: the priorities of the bearings the other way round
BearingKeyDescending(feature) ==
    CASE feature.bearing = START -> 1
      [] feature.bearing = OPEN_STATUS -> 2
      [] feature.bearing = CLOSE_STATUS -> 3
      [] feature.bearing = END -> 4
      [] feature.bearing = POINT -> 0

\* the key dictionary of sort_by_bearing
BearingKey(feature) ==
    CASE feature.bearing = START -> 3
      [] feature.bearing = OPEN_STATUS -> 2
      [] feature.bearing = CLOSE_STATUS -> 1
      [] feature.bearing = END -> 0
      [] feature.bearing = POINT -> 4

SortByBearing(matches) == StableSort(matches, [i \in 1..Len(matches) |-> BearingKey(matches[i])])

\* full_stack_matches: the positional stacks, each split by bearing
FullStackMatches(features) ==
    LET ByBearing(stacks) ==
            [k \in 1..Len(stacks) |-> StackMatches(SortByBearing(stacks[k]), "bearing_match")]
    IN  Concat(ByBearing(StackMatches(features, "positional_match")))

----------------------------------------------------------------------------
(* transition_5p_to_3p: one generator, pulled by next() *)

\* variant: the yielded triple refers to the generator's own status object
LiveStatusRef(objs) == 1

\* copy.deepcopy(status): the yielded triple refers to a fresh object
DeepCopyRef(objs) == Len(objs) + 1

\* the generator's run from the top of the inner loop to its next yield: the
\* next group of the current piece, else the groups of the next piece, else the end
Resume(frame, status) ==
    LET Stopped(kind, st) == [kind |-> kind, frame |-> frame, status |-> st, group |-> <<>>]
        Apply(groups, piece, rest) ==
            LET Out(updated) ==
                    IF updated.kind # Returned THEN Stopped(updated.kind, updated.status)
                    ELSE [kind |-> Yielded,
                          frame |-> [frame EXCEPT !.pieces = rest, !.piece = piece,
                                                  !.groups = Tail(groups)],
                          status |-> updated.status, group |-> Head(groups)]
            IN  Out(UpdateStatus(status, Head(groups)))
        NextPiece(sorted) ==
            IF sorted.kind # Returned THEN Stopped(sorted.kind, status)
            ELSE Apply(FullStackMatches(sorted.features), Head(frame.pieces),
                       Tail(frame.pieces))
    IN  IF frame.groups # <<>> THEN Apply(frame.groups, frame.piece, frame.pieces)
        ELSE IF frame.pieces = <<>> THEN Stopped(StopIteration, status)
        ELSE NextPiece(SortedFeatures(Head(frame.pieces)))

\* variant: the traversal works on the collection itself
AfterWorkInPlace(collection, own_list) == own_list

\* a collection of the store after the traversal has worked on a list of its own
\* made from it: ordered_pieces = pieces[0:1] in sort_pieces and
\* features = sorted(features, ...) in sorted_features are new lists, and the
\* extending and the reversing change those
AfterWorkOnCopy(collection, own_list) == collection

\* the piece whose features this pull sorts, 0 when it sorts none
PieceSortedNow(sorted) ==
    IF sorted.kind = Returned /\ gen.groups = <<>> /\ sorted.value # <<>>
    THEN Head(sorted.value) ELSE 0

\* next(generator): the first call also runs sort_pieces
Pull ==
    /\ gen.state \in {"created", "suspended"}
    /\ \E sorted \in {IF gen.state = "created" THEN SortPieces
                      ELSE [kind |-> Returned, value |-> gen.pieces]} :
          /\ \E r \in {IF sorted.kind = Returned
                       THEN Resume([gen EXCEPT !.pieces = sorted.value], statusObjs[1])
                       ELSE [kind |-> sorted.kind, frame |-> gen, status |-> statusObjs[1],
                             group |-> <<>>]} :
                 LET ref == DeepCopyRef(statusObjs)
                     live == [statusObjs EXCEPT ![1] = r.status]
                 IN  IF r.kind = Yielded
                     THEN /\ gen' = [r.frame EXCEPT !.state = "suspended", !.last = Yielded]
                          /\ statusObjs' = IF ref > Len(live) THEN Append(live, r.status)
                                           ELSE live
                          /\ yielded' = Append(yielded, [features |-> r.group, status |-> ref,
                                                         piece |-> r.frame.piece])
                     ELSE /\ gen' = [gen EXCEPT !.state = IF r.kind = StopIteration
                                                          THEN "exhausted" ELSE "failed",
                                                !.pieces = <<>>, !.groups = <<>>,
                                                !.last = r.kind]
                          /\ statusObjs' = live
                          /\ yielded' = yielded
          /\ pieces' = IF gen.state = "created" /\ sorted.kind = Returned
                       THEN AfterWorkOnCopy(pieces, sorted.value) ELSE pieces
          /\ \E piece \in {PieceSortedNow(sorted)} :
                pieceFeatures' =
                    IF piece = 0 THEN pieceFeatures
                    ELSE [pieceFeatures EXCEPT
                             ![piece] = AfterWorkOnCopy(@, SortedFeatures(piece).features)]
    /\ UNCHANGED <<pairs, lastCall>>
    /\ UNCHANGED graphVars

\* the Feature records of the store that a streamed transcript draws on
Feature(id, type, bearing, position, is_plus_strand, coordinates, phase) ==
    [id |-> id, kind |-> "Feature", type |-> type, bearing |-> bearing,
     position |-> position, is_plus_strand |-> is_plus_strand,
     coordinates |-> coordinates, phase |-> phase]

FeatureStore ==
    {Feature(1, TRANSCRIBED, START, 1, TRUE, 1, NoPhase),
     Feature(2, CODING, START, 1, TRUE, 1, 0),
     Feature(3, CODING, END, 2, TRUE, 1, NoPhase),
     Feature(4, TRANSCRIBED, END, 2, TRUE, 1, NoPhase),
     Feature(5, CODING, OPEN_STATUS, 2, TRUE, 1, 2),
     Feature(6, INTRON, CLOSE_STATUS, 1, TRUE, 1, NoPhase),
     Feature(7, ERROR, POINT, 2, TRUE, 1, NoPhase),
     Feature(8, TRANSCRIBED, START, 2, FALSE, 1, NoPhase),
     Feature(9, CODING, START, 1, FALSE, 1, 0),
     Feature(10, TRANSCRIBED, START, 1, TRUE, 2, NoPhase)}

\* the lists of at most n distinct features of the store
RECURSIVE DistinctFeatureLists(_)
DistinctFeatureLists(n) ==
    IF n = 0 THEN {<<>>}
    ELSE LET shorter == DistinctFeatureLists(n - 1)
         IN  shorter \cup UNION {{Append(l, f) : f \in FeatureStore \ Range(l)} : l \in shorter}

\* a transcript of one piece, or of two pieces that one pair joins (from piece
\* `up` to the other one) or that no pair joins (up = 0)
StreamShapes ==
    {[pieces |-> <<1>>, up |-> 0], [pieces |-> <<1, 2>>, up |-> 0],
     [pieces |-> <<1, 2>>, up |-> 1], [pieces |-> <<1, 2>>, up |-> 2]}

\* piece.features: the features of the list go to piece 1 up to the cut and to
\* piece 2 behind it; a joined piece also holds its link feature
StreamPieceFeatures(list, cut, shape) ==
    [p \in AllPieces |->
        (IF shape.up # 0 /\ p = 3 - shape.up THEN <<DownstreamFeatureOf(p)>> ELSE <<>>)
        \o (IF p = 1 THEN SubSeq(list, 1, cut)
            ELSE IF p = 2 THEN SubSeq(list, cut + 1, Len(list))
            ELSE <<>>)
        \o (IF shape.up # 0 /\ p = shape.up THEN <<UpstreamFeatureOf(p)>> ELSE <<>>)]

NewGen == [state |-> "created", pieces |-> <<>>, groups |-> <<>>, piece |-> 0,
           last |-> "none"]

StreamInit ==
    /\ \E list \in DistinctFeatureLists(MaxFeatures), shape \in StreamShapes :
          \E cut \in 0..Len(list) :
              /\ Len(shape.pieces) = 1 => cut = Len(list)
              /\ pieces = shape.pieces
              /\ pairs = IF shape.up = 0 THEN <<>>
                         ELSE <<MakePair(1, shape.up, 3 - shape.up, ThisTranscript)>>
              /\ pieceFeatures = StreamPieceFeatures(list, cut, shape)
    /\ lastCall = NoCall
    /\ gen = NewGen
    /\ statusObjs = <<InitialStatus>>
    /\ yielded = <<>>
    /\ NoGraph

StreamNext == Pull

SpecStream == StreamInit /\ [][StreamNext]_vars

----------------------------------------------------------------------------
(* The status machine on its own: update_status called feature by feature *)

MaxReplay == 4

Types == {TRANSCRIBED, CODING, INTRON, TRANS_INTRON, ERROR}

Bearings == {START, OPEN_STATUS, CLOSE_STATUS, END, POINT}

\* the features one call may be given: every type and bearing; a coding feature
\* also with a phase of its own
StatusFeatures ==
    {Feature(0, type, bearing, 1, TRUE, 1, NoPhase) : type \in Types, bearing \in Bearings}
    \cup {Feature(0, CODING, bearing, 1, TRUE, 1, phase) :
             bearing \in Bearings, phase \in {0, 2}}

\* the features of a transcript without introns, as a replay goes through them
ReplayFeatures ==
    {Feature(0, type, bearing, 1, TRUE, 1, NoPhase) :
        type \in {TRANSCRIBED, CODING}, bearing \in {START, OPEN_STATUS, CLOSE_STATUS, END}}

StatusInit ==
    /\ pieces = <<>>
    /\ pairs = <<>>
    /\ pieceFeatures = [p \in AllPieces |-> <<>>]
    /\ lastCall = NoCall
    /\ gen = IdleGen
    /\ statusObjs = <<InitialStatus>>
    /\ yielded = <<>>
    /\ NoGraph

\* update_status(status, [feature]) on the one status object
CallUpdateStatus ==
    /\ \E feature \in StatusFeatures :
          \E r \in {UpdateStatus(statusObjs[1], <<feature>>)} :
              /\ statusObjs' = <<r.status>>
              /\ lastCall' = [op |-> "update_status", piece |-> 0, kind |-> r.kind,
                              ordered |-> <<>>, link |-> <<feature>>]
    /\ UNCHANGED <<pieces, pairs, pieceFeatures, gen, yielded>>
    /\ UNCHANGED graphVars

StatusNext == CallUpdateStatus

SpecStatus == StatusInit /\ [][StatusNext]_vars

\* one step of a replay: update_status(status, [feature]), and the status as it
\* is read after the step
ReplayFeature ==
    /\ Len(yielded) < MaxReplay
    /\ \E feature \in ReplayFeatures :
          \E r \in {UpdateStatus(statusObjs[1], <<feature>>)} :
              /\ r.kind = Returned
              /\ statusObjs' = Append([statusObjs EXCEPT ![1] = r.status], r.status)
              /\ yielded' = Append(yielded, [features |-> <<feature>>,
                                             status |-> Len(statusObjs) + 1, piece |-> 0])
    /\ UNCHANGED <<pieces, pairs, pieceFeatures, lastCall, gen>>
    /\ UNCHANGED graphVars

ReplayNext == ReplayFeature

SpecReplay == StatusInit /\ [][ReplayNext]_vars

----------------------------------------------------------------------------
(* Handler layer: handler classes, data records and their relationships *)

\* the fault of reading an attribute that an object does not have
AttributeError == "AttributeError"

AnnotatedGenomeHandler == "AnnotatedGenomeHandler"

SequenceInfoHandler == "SequenceInfoHandler"

SuperLocusHandler == "SuperLocusHandler"

TranscribedHandler == "TranscribedHandler"

TranscribedPieceHandler == "TranscribedPieceHandler"

TranslatedHandler == "TranslatedHandler"

FeatureHandler == "FeatureHandler"

DownstreamFeatureHandler == "DownstreamFeatureHandler"

UpstreamFeatureHandler == "UpstreamFeatureHandler"

UpDownPairHandler == "UpDownPairHandler"

HandlerClasses ==
    <<AnnotatedGenomeHandler, SequenceInfoHandler, SuperLocusHandler, TranscribedHandler,
      TranscribedPieceHandler, TranslatedHandler, FeatureHandler, DownstreamFeatureHandler,
      UpstreamFeatureHandler, UpDownPairHandler>>

NClasses == Len(HandlerClasses)

\* the store holds two data records per data type: record k and record
\* NClasses + k are of the data type of handler class k; a handler has the id of
\* the record it is made for
RecordIds == 1..(2 * NClasses)

ClassOf(id) == HandlerClasses[((id - 1) % NClasses) + 1]

\* isinstance(handler, class): the two link-feature handlers are FeatureHandlers
IsInstance(handler, class) ==
    \/ ClassOf(handler) = class
    \/ class = FeatureHandler
       /\ ClassOf(handler) \in {DownstreamFeatureHandler, UpstreamFeatureHandler}

\* the property _valid_links of each handler class
valid_links(class) ==
    CASE class = AnnotatedGenomeHandler -> {SequenceInfoHandler}
      [] class = SequenceInfoHandler -> {AnnotatedGenomeHandler, SuperLocusHandler}
      [] class = SuperLocusHandler ->
            {SequenceInfoHandler, TranscribedHandler, TranslatedHandler, FeatureHandler}
      [] class = TranscribedHandler ->
            {TranslatedHandler, SuperLocusHandler, TranscribedPieceHandler, UpDownPairHandler}
      [] class = TranscribedPieceHandler ->
            {TranscribedHandler, SuperLocusHandler, FeatureHandler}
      [] class = TranslatedHandler -> {TranscribedHandler, SuperLocusHandler, FeatureHandler}
      [] class = FeatureHandler ->
            {TranscribedPieceHandler, SuperLocusHandler, TranslatedHandler}
      [] class \in {DownstreamFeatureHandler, UpstreamFeatureHandler} ->
            {TranscribedPieceHandler, SuperLocusHandler, TranslatedHandler, UpDownPairHandler}
      [] class = UpDownPairHandler ->
            {TranscribedHandler, DownstreamFeatureHandler, UpstreamFeatureHandler}

\* any([isinstance(other, x) for x in self._valid_links])
IsValidLink(self, other) == \E class \in valid_links(ClassOf(self)) : IsInstance(other, class)

FeatureClasses == {FeatureHandler, DownstreamFeatureHandler, UpstreamFeatureHandler}

\* one relationship of the data model: the records of the owner types hold the
\* collection, the records of the member types hold the back-reference, which
\* is a collection too when the relationship is many-to-many
Relationship(name, owners, collection, members, backref, many) ==
    [name |-> name, owners |-> owners, collection |-> collection, members |-> members,
     backref |-> backref, many |-> many]

Relationships ==
    {Relationship("genome_sequence_infos", {AnnotatedGenomeHandler}, "sequence_infos",
                  {SequenceInfoHandler}, "annotated_genome", FALSE),
     Relationship("sequence_info_super_loci", {SequenceInfoHandler}, "super_loci",
                  {SuperLocusHandler}, "sequence_info", FALSE),
     Relationship("super_locus_transcribeds", {SuperLocusHandler}, "transcribeds",
                  {TranscribedHandler}, "super_locus", FALSE),
     Relationship("super_locus_translateds", {SuperLocusHandler}, "translateds",
                  {TranslatedHandler}, "super_locus", FALSE),
     Relationship("super_locus_features", {SuperLocusHandler}, "features",
                  FeatureClasses, "super_locus", FALSE),
     Relationship("transcribed_pieces", {TranscribedHandler}, "transcribed_pieces",
                  {TranscribedPieceHandler}, "transcribed", FALSE),
     Relationship("transcribed_translateds", {TranscribedHandler}, "translateds",
                  {TranslatedHandler}, "transcribeds", TRUE),
     Relationship("transcribed_pairs", {TranscribedHandler}, "pairs",
                  {UpDownPairHandler}, "transcribed", FALSE),
     Relationship("piece_features", {TranscribedPieceHandler}, "features",
                  FeatureClasses, "transcribed_pieces", TRUE),
     Relationship("translated_features", {TranslatedHandler}, "features",
                  FeatureClasses, "translateds", TRUE),
     Relationship("upstream_pairs", {UpstreamFeatureHandler}, "pairs",
                  {UpDownPairHandler}, "upstream", FALSE),
     Relationship("downstream_pairs", {DownstreamFeatureHandler}, "pairs",
                  {UpDownPairHandler}, "downstream", FALSE)}

RelationshipNames == {r.name : r \in Relationships}

\* the relationship in which the attribute is the collection of the record's
\* type, and the one in which it is its back-reference
AsOwner(id, attr) == {r \in Relationships : ClassOf(id) \in r.owners /\ r.collection = attr}

AsMember(id, attr) == {r \in Relationships : ClassOf(id) \in r.members /\ r.backref = attr}

\* the list without its first entry e
RemoveFirst(seq, e) ==
    LET Without(i) == SubSeq(seq, 1, i - 1) \o SubSeq(seq, i + 1, Len(seq))
    IN  Without(CHOOSE i \in 1..Len(seq) : seq[i] = e /\ \A j \in 1..(i - 1) : seq[j] # e)

\* the entries that do not have m as their member
WithoutMember(seq, m) == SelectSeq(seq, LAMBDA e : e[2] # m)

\* a plain Python attribute name = value among the attributes of an object
WithPlain(plain, name, value) == {nv \in plain : nv[1] # name} \cup {<<name, value>>}

\* the state the handler methods work on
GraphState == [edges |-> edges, dataObjs |-> dataObjs, handlerObjs |-> handlerObjs]

Ok(st) == [kind |-> Returned, st |-> st]

Raise(kind, st) == [kind |-> kind, st |-> st]

\* record.attr = value, value 0 being None: a back-reference moves the record
\* into the collection of its new owner; any other name is a plain attribute
SetAttr(st, id, attr, value) ==
    LET Moved(r) ==
            [st EXCEPT !.edges[r.name] =
                IF value = 0 THEN WithoutMember(@, id)
                ELSE Append(WithoutMember(@, id), <<value, id>>)]
        single == {r \in AsMember(id, attr) : ~r.many}
    IN  IF single # {} THEN Moved(CHOOSE r \in single : TRUE)
        ELSE [st EXCEPT !.dataObjs[id].plain = WithPlain(@, attr, value)]

\* record.attr.append(value): a member has one owner unless the relationship is
\* many-to-many; a name that is no collection of the record is an AttributeError
AppendAttr(st, id, attr, value) ==
    LET Owned(r) ==
            [st EXCEPT !.edges[r.name] =
                IF r.many THEN Append(@, <<id, value>>)
                ELSE Append(WithoutMember(@, value), <<id, value>>)]
        Joined(r) == [st EXCEPT !.edges[r.name] = Append(@, <<value, id>>)]
        many == {r \in AsMember(id, attr) : r.many}
    IN  IF AsOwner(id, attr) # {} THEN Ok(Owned(CHOOSE r \in AsOwner(id, attr) : TRUE))
        ELSE IF many # {} THEN Ok(Joined(CHOOSE r \in many : TRUE))
        ELSE Raise(AttributeError, st)

\* record.attr.remove(value): list.remove raises ValueError for an absent value
RemoveAttr(st, id, attr, value) ==
    LET Dropped(r, e) ==
            IF \E i \in 1..Len(st.edges[r.name]) : st.edges[r.name][i] = e
            THEN Ok([st EXCEPT !.edges[r.name] = RemoveFirst(@, e)])
            ELSE Raise(ValueError, st)
        many == {r \in AsMember(id, attr) : r.many}
    IN  IF AsOwner(id, attr) # {}
        THEN Dropped(CHOOSE r \in AsOwner(id, attr) : TRUE, <<id, value>>)
        ELSE IF many # {} THEN Dropped(CHOOSE r \in many : TRUE, <<value, id>>)
        ELSE Raise(AttributeError, st)

\* handler.data
DataOf(st, handler) == st.handlerObjs[handler].data

\* handler.attr = value: a plain attribute of the handler object
SetHandlerAttr(st, handler, attr, value) ==
    [st EXCEPT !.handlerObjs[handler].plain = WithPlain(@, attr, value)]


----------------------------------------------------------------------------
(* Handler layer: link_to and de_link of each handler class *)

\* a link of an unaccepted kind passed over in silence
LinkSilentlyIgnored(st) == Ok(st)

\* raise self._link_value_error(other)
LinkValueError(st) == Raise(ValueError, st)

AnnotatedGenomeHandler_link_to(self, other, st) ==
    IF IsInstance(other, SequenceInfoHandler)
    THEN Ok(SetAttr(st, DataOf(st, other), "annotated_genome", DataOf(st, self)))
    ELSE LinkValueError(st)

AnnotatedGenomeHandler_de_link(self, other, st) ==
    IF IsInstance(other, SequenceInfoHandler)
    THEN RemoveAttr(st, DataOf(st, self), "sequence_infos", DataOf(st, other))
    ELSE LinkValueError(st)

SequenceInfoHandler_link_to(self, other, st) ==
    IF IsInstance(other, AnnotatedGenomeHandler)
    THEN Ok(SetAttr(st, DataOf(st, self), "annotated_genome", DataOf(st, other)))
    ELSE IF IsInstance(other, SuperLocusHandler)
    THEN Ok(SetAttr(st, DataOf(st, other), "sequence_info", DataOf(st, self)))
    ELSE LinkValueError(st)

SequenceInfoHandler_de_link(self, other, st) ==
    IF IsInstance(other, AnnotatedGenomeHandler)
    THEN RemoveAttr(st, DataOf(st, other), "sequence_infos", DataOf(st, self))
    ELSE IF IsInstance(other, SuperLocusHandler)
    THEN RemoveAttr(st, DataOf(st, self), "super_loci", DataOf(st, other))
    ELSE LinkValueError(st)

SuperLocusHandler_link_to(self, other, st) ==
    IF IsInstance(other, SequenceInfoHandler)
    THEN Ok(SetAttr(st, DataOf(st, self), "sequence_info", DataOf(st, other)))
    ELSE IF \E x \in {TranscribedHandler, TranslatedHandler, FeatureHandler} :
                IsInstance(other, x)
    THEN Ok(SetAttr(st, DataOf(st, other), "super_locus", DataOf(st, self)))
    ELSE LinkValueError(st)

SuperLocusHandler_de_link(self, other, st) ==
    IF IsInstance(other, SequenceInfoHandler)
    THEN RemoveAttr(st, DataOf(st, other), "super_loci", DataOf(st, self))
    ELSE IF \E x \in {TranscribedHandler, TranslatedHandler, FeatureHandler} :
                IsInstance(other, x)
    THEN Ok(SetAttr(st, DataOf(st, other), "super_locus", 0))
    ELSE LinkValueError(st)

TranscribedHandler_link_to(self, other, st) ==
    IF IsInstance(other, SuperLocusHandler)
    THEN Ok(SetAttr(st, DataOf(st, self), "super_locus", DataOf(st, other)))
    ELSE IF \E x \in {UpDownPairHandler, TranscribedPieceHandler} : IsInstance(other, x)
    THEN Ok(SetAttr(st, DataOf(st, other), "transcribed", DataOf(st, self)))
    ELSE IF IsInstance(other, TranslatedHandler)
    THEN AppendAttr(st, DataOf(st, other), "transcribeds", DataOf(st, self))
    ELSE LinkValueError(st)

TranscribedHandler_de_link(self, other, st) ==
    IF IsInstance(other, UpDownPairHandler)
    THEN Ok(SetAttr(st, DataOf(st, other), "transcribed", 0))
    ELSE IF IsValidLink(self, other)
    THEN RemoveAttr(st, DataOf(st, other), "transcribeds", DataOf(st, self))
    ELSE LinkValueError(st)

TranscribedPieceHandler_link_to(self, other, st) ==
    IF IsInstance(other, SuperLocusHandler)
    THEN Ok(SetAttr(st, DataOf(st, self), "super_locus", DataOf(st, other)))
    ELSE IF \E x \in {TranscribedHandler, FeatureHandler} : IsInstance(other, x)
    THEN AppendAttr(st, DataOf(st, other), "transcribed_pieces", DataOf(st, self))
    ELSE LinkValueError(st)

TranscribedPieceHandler_de_link(self, other, st) ==
    IF IsValidLink(self, other)
    THEN RemoveAttr(st, DataOf(st, other), "transcribed_pieces", DataOf(st, self))
    ELSE LinkValueError(st)

TranslatedHandler_link_to(self, other, st) ==
    IF IsInstance(other, SuperLocusHandler)
    THEN Ok(SetAttr(st, DataOf(st, self), "super_locus", DataOf(st, other)))
    ELSE IF \E x \in {TranscribedHandler, FeatureHandler} : IsInstance(other, x)
    THEN AppendAttr(st, DataOf(st, other), "translateds", DataOf(st, self))
    ELSE LinkValueError(st)

TranslatedHandler_de_link(self, other, st) ==
    IF IsValidLink(self, other)
    THEN RemoveAttr(st, DataOf(st, other), "translateds", DataOf(st, self))
    ELSE LinkValueError(st)

FeatureHandler_link_to(self, other, st) ==
    IF IsInstance(other, SuperLocusHandler)
    THEN Ok(SetAttr(st, DataOf(st, self), "super_locus", DataOf(st, other)))
    ELSE IF \E x \in {TranslatedHandler, TranscribedPieceHandler} : IsInstance(other, x)
    THEN AppendAttr(st, DataOf(st, other), "features", DataOf(st, self))
    ELSE LinkValueError(st)

\* FeatureHandler.de_link; _valid_links is the property of the class of self
FeatureHandler_de_link(self, other, st) ==
    IF IsValidLink(self, other)
    THEN RemoveAttr(st, DataOf(st, other), "features", DataOf(st, self))
    ELSE LinkValueError(st)

\* DownstreamFeatureHandler.link_to: the link of a FeatureHandler, and on its
\* ValueError the pair's handler is given the attribute `downstream`
DownstreamFeatureHandler_link_to(self, other, st) ==
    LET Except(tried) ==
            IF tried.kind # ValueError THEN tried
            ELSE IF IsInstance(other, UpDownPairHandler)
            THEN Ok(SetHandlerAttr(st, other, "downstream", DataOf(st, self)))
            ELSE LinkValueError(st)
    IN  Except(FeatureHandler_link_to(self, other, st))

DownstreamFeatureHandler_de_link(self, other, st) ==
    IF \E x \in {TranscribedPieceHandler, SuperLocusHandler, TranslatedHandler} :
           IsInstance(other, x)
    THEN RemoveAttr(st, DataOf(st, other), "features", DataOf(st, self))
    ELSE IF IsInstance(other, UpDownPairHandler)
    THEN Ok(SetAttr(st, DataOf(st, other), "downstream", 0))
    ELSE LinkValueError(st)

UpstreamFeatureHandler_link_to(self, other, st) ==
    LET Except(tried) ==
            IF tried.kind # ValueError THEN tried
            ELSE IF IsInstance(other, UpDownPairHandler)
            THEN Ok(SetHandlerAttr(st, other, "upstream", DataOf(st, self)))
            ELSE LinkValueError(st)
    IN  Except(FeatureHandler_link_to(self, other, st))

UpstreamFeatureHandler_de_link(self, other, st) ==
    IF \E x \in {TranscribedPieceHandler, SuperLocusHandler, TranslatedHandler} :
           IsInstance(other, x)
    THEN RemoveAttr(st, DataOf(st, other), "features", DataOf(st, self))
    ELSE IF IsInstance(other, UpDownPairHandler)
    THEN Ok(SetAttr(st, DataOf(st, other), "upstream", 0))
    ELSE LinkValueError(st)

UpDownPairHandler_link_to(self, other, st) ==
    IF IsValidLink(self, other)
    THEN AppendAttr(st, DataOf(st, other), "pairs", DataOf(st, self))
    ELSE LinkValueError(st)

UpDownPairHandler_de_link(self, other, st) ==
    IF IsValidLink(self, other)
    THEN RemoveAttr(st, DataOf(st, other), "pairs", DataOf(st, self))
    ELSE LinkValueError(st)

\* self.link_to(other), dispatched on the class of self
LinkTo(self, other, st) ==
    CASE ClassOf(self) = AnnotatedGenomeHandler -> AnnotatedGenomeHandler_link_to(self, other, st)
      [] ClassOf(self) = SequenceInfoHandler -> SequenceInfoHandler_link_to(self, other, st)
      [] ClassOf(self) = SuperLocusHandler -> SuperLocusHandler_link_to(self, other, st)
      [] ClassOf(self) = TranscribedHandler -> TranscribedHandler_link_to(self, other, st)
      [] ClassOf(self) = TranscribedPieceHandler ->
            TranscribedPieceHandler_link_to(self, other, st)
      [] ClassOf(self) = TranslatedHandler -> TranslatedHandler_link_to(self, other, st)
      [] ClassOf(self) = FeatureHandler -> FeatureHandler_link_to(self, other, st)
      [] ClassOf(self) = DownstreamFeatureHandler ->
            DownstreamFeatureHandler_link_to(self, other, st)
      [] ClassOf(self) = UpstreamFeatureHandler ->
            UpstreamFeatureHandler_link_to(self, other, st)
      [] ClassOf(self) = UpDownPairHandler -> UpDownPairHandler_link_to(self, other, st)

\* self.de_link(other), dispatched on the class of self
DeLink(self, other, st) ==
    CASE ClassOf(self) = AnnotatedGenomeHandler -> AnnotatedGenomeHandler_de_link(self, other, st)
      [] ClassOf(self) = SequenceInfoHandler -> SequenceInfoHandler_de_link(self, other, st)
      [] ClassOf(self) = SuperLocusHandler -> SuperLocusHandler_de_link(self, other, st)
      [] ClassOf(self) = TranscribedHandler -> TranscribedHandler_de_link(self, other, st)
      [] ClassOf(self) = TranscribedPieceHandler ->
            TranscribedPieceHandler_de_link(self, other, st)
      [] ClassOf(self) = TranslatedHandler -> TranslatedHandler_de_link(self, other, st)
      [] ClassOf(self) = FeatureHandler -> FeatureHandler_de_link(self, other, st)
      [] ClassOf(self) = DownstreamFeatureHandler ->
            DownstreamFeatureHandler_de_link(self, other, st)
      [] ClassOf(self) = UpstreamFeatureHandler ->
            UpstreamFeatureHandler_de_link(self, other, st)
      [] ClassOf(self) = UpDownPairHandler -> UpDownPairHandler_de_link(self, other, st)

----------------------------------------------------------------------------
(* Handler layer: two bound handlers linking and de-linking each other *)

\* calls made on the handlers in one run
MaxCalls == 2

\* the records of the data types of a set of handler classes
RecordsOf(classes) == {id \in RecordIds : ClassOf(id) \in classes}

\* every entry <<relationship, owner, member>> the data model allows
PossibleEdges ==
    UNION {{<<r.name, o, m>> : o \in RecordsOf(r.owners), m \in RecordsOf(r.members)} :
           r \in Relationships}

\* two handlers: of two classes the first record of each, or both records of one
HandlerPairs ==
    {hs \in SUBSET RecordIds :
        /\ \E a \in hs, b \in hs : a # b /\ hs = {a, b}
        /\ \A h \in hs : h > NClasses => (h - NClasses) \in hs}

LinkInit ==
    /\ pieces = <<>>
    /\ pairs = <<>>
    /\ pieceFeatures = [p \in AllPieces |-> <<>>]
    /\ lastCall = NoCall
    /\ gen = IdleGen
    /\ statusObjs = <<InitialStatus>>
    /\ yielded = <<>>
    /\ \E hs \in HandlerPairs :
          /\ handlerObjs = [h \in hs |-> [data |-> h, delete_me |-> FALSE, plain |-> {}]]
          /\ dataObjs = [id \in RecordIds |->
                            [handler |-> IF id \in hs THEN id ELSE 0, plain |-> {}]]
          /\ \E pre \in {{}} \cup {{e} : e \in {x \in PossibleEdges :
                                                   x[2] \in hs \/ x[3] \in hs}} :
                edges = [n \in RelationshipNames |->
                            IF \E e \in pre : e[1] = n
                            THEN LET e == CHOOSE x \in pre : x[1] = n IN <<<<e[2], e[3]>>>>
                            ELSE <<>>]
    /\ calls = <<>>

\* the record of one call: what it was, how it ended, the graph before and after
CallRecord(op, self, other, before, r) ==
    [op |-> op, self |-> self, other |-> other, kind |-> r.kind,
     before |-> before, after |-> r.st]

\* self.link_to(other) for two handlers of the graph
CallLinkTo ==
    /\ Len(calls) < MaxCalls
    /\ \E self \in DOMAIN handlerObjs, other \in DOMAIN handlerObjs :
          /\ self # other
          /\ \E r \in {LinkTo(self, other, GraphState)} :
                /\ edges' = r.st.edges
                /\ dataObjs' = r.st.dataObjs
                /\ handlerObjs' = r.st.handlerObjs
                /\ calls' = Append(calls, CallRecord("link_to", self, other, GraphState, r))
    /\ UNCHANGED interpVars

\* self.de_link(other) for two handlers of the graph
CallDeLink ==
    /\ Len(calls) < MaxCalls
    /\ \E self \in DOMAIN handlerObjs, other \in DOMAIN handlerObjs :
          /\ self # other
          /\ \E r \in {DeLink(self, other, GraphState)} :
                /\ edges' = r.st.edges
                /\ dataObjs' = r.st.dataObjs
                /\ handlerObjs' = r.st.handlerObjs
                /\ calls' = Append(calls, CallRecord("de_link", self, other, GraphState, r))
    /\ UNCHANGED interpVars

LinkNext == CallLinkTo \/ CallDeLink

SpecLink == LinkInit /\ [][LinkNext]_vars

----------------------------------------------------------------------------
(* Handler layer: copying and replacing the links of a handler *)

\* self.linkable of each handler class, as its __init__ leaves it
linkable(class) ==
    CASE class = TranscribedHandler -> <<"super_locus", "transcribed_pieces", "translateds">>
      [] class = TranscribedPieceHandler -> <<"super_locus", "features", "transcribed">>
      [] class = TranslatedHandler -> <<"super_locus", "features", "transcribeds">>
      [] class = FeatureHandler -> <<"super_locus", "transcribed_pieces", "translateds">>
      [] class \in {DownstreamFeatureHandler, UpstreamFeatureHandler} ->
            <<"super_locus", "transcribed_pieces", "translateds", "pairs">>
      [] class = UpDownPairHandler -> <<"upstream", "transcribed", "downstream">>
      [] OTHER -> <<>>

\* the values an attribute of a record can have for the isinstance tests
IsList == "list"

IsBase == "annotations_orm.Base"

IsNone == "NoneType"

\* the owners or the members of the entries of a relationship that name a record on the other side
MembersOf(seq, owner) ==
    LET mine == SelectSeq(seq, LAMBDA e : e[1] = owner)
    IN  [k \in 1..Len(mine) |-> mine[k][2]]

OwnersOf(seq, member) ==
    LET mine == SelectSeq(seq, LAMBDA e : e[2] = member)
    IN  [k \in 1..Len(mine) |-> mine[k][1]]

\* record.attr read: a collection is a list of records, a reference is a record
\* or None, and a name the record does not have is an AttributeError
GetAttr(st, id, attr) ==
    LET AsList(items) == [kind |-> IsList, items |-> items]
        AsRef(items) ==
            IF items = <<>> THEN [kind |-> IsNone, items |-> <<>>]
            ELSE [kind |-> IsBase, items |-> <<items[1]>>]
        plain == {nv \in st.dataObjs[id].plain : nv[1] = attr}
    IN  IF AsOwner(id, attr) # {}
        THEN AsList(MembersOf(st.edges[(CHOOSE r \in AsOwner(id, attr) : TRUE).name], id))
        ELSE IF AsMember(id, attr) # {}
        THEN LET Read(r) ==
                     IF r.many THEN AsList(OwnersOf(st.edges[r.name], id))
                     ELSE AsRef(OwnersOf(st.edges[r.name], id))
             IN  Read(CHOOSE r \in AsMember(id, attr) : TRUE)
        ELSE IF plain # {}
        THEN LET Value(nv) == AsRef(IF nv[2] = 0 THEN <<>> ELSE <<nv[2]>>)
             IN  Value(CHOOSE nv \in plain : TRUE)
        ELSE [kind |-> AttributeError, items |-> <<>>]

\* data.handler, 0 being None
HandlerOf(st, data) == st.dataObjs[data].handler

\* another.link_to(other) where other may be None: None is an instance of no
\* handler class, so every link_to ends in its ValueError
LinkToOrNone(self, other, st) ==
    IF other = 0 THEN LinkValueError(st) ELSE LinkTo(self, other, st)

DeLinkOrNone(self, other, st) ==
    IF other = 0 THEN LinkValueError(st) ELSE DeLink(self, other, st)

\* Handler.copy_selflink_to_another
copy_selflink_to_another(another, data, st) ==
    LinkToOrNone(another, HandlerOf(st, data), st)

\* Handler.replace_selflink_with_replacementlink
replace_selflink_with_replacementlink(self, replacement, data, st) ==
    LET Then(delinked) ==
            IF delinked.kind # Returned THEN delinked
            ELSE LinkToOrNone(replacement, HandlerOf(st, data), delinked.st)
    IN  Then(DeLinkOrNone(self, HandlerOf(st, data), st))

\* the loop `for i in reversed(list(range(n)))` over the items of val, which
\* stops at the first call that raises; op names the method run on each item
RECURSIVE ForEachReversed(_, _, _, _, _)
ForEachReversed(op, self, another, items, st) ==
    IF items = <<>> THEN Ok(st)
    ELSE LET Next(r) ==
                 IF r.kind # Returned THEN r
                 ELSE ForEachReversed(op, self, another,
                                      SubSeq(items, 1, Len(items) - 1), r.st)
         IN  Next(IF op = "copy"
                  THEN copy_selflink_to_another(another, items[Len(items)], st)
                  ELSE replace_selflink_with_replacementlink(self, another,
                                                             items[Len(items)], st))

\* the loop `for attr in to_copy` of both methods
RECURSIVE ForEachAttr(_, _, _, _, _)
ForEachAttr(op, self, another, attrs, st) ==
    IF attrs = <<>> THEN Ok(st)
    ELSE LET Next(r) ==
                 IF r.kind # Returned THEN r
                 ELSE ForEachAttr(op, self, another, Tail(attrs), r.st)
             OnValue(val) ==
                 IF val.kind = AttributeError THEN Raise(AttributeError, st)
                 ELSE IF val.kind = IsNone THEN Raise(ValueError, st)
                 ELSE ForEachReversed(op, self, another, val.items, st)
         IN  Next(OnValue(GetAttr(st, DataOf(st, self), Head(attrs))))

\* the fields that may not be named
NeverCopied == {"id", "handler"}

\* Handler.copy_selflinks_to_another
copy_selflinks_to_another(self, another, to_copy, st) ==
    IF \E k \in 1..Len(to_copy) : to_copy[k] \in NeverCopied
    THEN Raise(AssertionError, st)
    ELSE ForEachAttr("copy", self, another, to_copy, st)

\* Handler.replace_selflinks_w_replacementlinks
replace_selflinks_w_replacementlinks(self, replacement, to_replace, st) ==
    IF \E k \in 1..Len(to_replace) : to_replace[k] \in NeverCopied
    THEN Raise(AssertionError, st)
    ELSE ForEachAttr("replace", self, replacement, to_replace, st)

\* calls of the two methods in one run
MaxCopies == 1

\* relationship entries the source record has when the run starts
MaxLinksOfSelf == 2

\* the names of the relationships a record of a class takes part in
RelationshipAttrs(class) ==
    {r.collection : r \in {x \in Relationships : class \in x.owners}}
        \cup {r.backref : r \in {x \in Relationships : class \in x.members}}

\* the lists handed over as to_copy / to_replace: one relationship, the whole
\* linkable list of the class, or a list that names the back-pointer
AttrLists(class) ==
    {<<a>> : a \in RelationshipAttrs(class)} \cup {linkable(class), <<"handler">>}

\* a record has one owner in every relationship that is not many-to-many
OneOwnerEach(es) ==
    \A e \in es, f \in es :
        (e[1] = f[1] /\ e[3] = f[3] /\ e[2] # f[2]) =>
            \E r \in Relationships : r.name = e[1] /\ r.many

FaxInit ==
    /\ pieces = <<>>
    /\ pairs = <<>>
    /\ pieceFeatures = [p \in AllPieces |-> <<>>]
    /\ lastCall = NoCall
    /\ gen = IdleGen
    /\ statusObjs = <<InitialStatus>>
    /\ yielded = <<>>
    /\ \E self \in 1..NClasses :
          \E pre \in {es \in SUBSET {x \in PossibleEdges : self \in {x[2], x[3]}} :
                         Cardinality(es) <= MaxLinksOfSelf /\ OneOwnerEach(es)} :
             \E order \in {o \in [1..Cardinality(pre) -> pre] :
                              \A i, j \in 1..Cardinality(pre) : i # j => o[i] # o[j]} :
                /\ handlerObjs =
                      [h \in {self, self + NClasses}
                                \cup {e[2] : e \in pre} \cup {e[3] : e \in pre} |->
                          [data |-> h, delete_me |-> FALSE, plain |-> {}]]
                /\ dataObjs = [id \in RecordIds |->
                                  [handler |-> IF id \in DOMAIN handlerObjs THEN id ELSE 0,
                                   plain |-> {}]]
                /\ edges = [n \in RelationshipNames |->
                               LET mine == SelectSeq(order, LAMBDA e : e[1] = n)
                               IN  [k \in 1..Len(mine) |-> <<mine[k][2], mine[k][3]>>]]
    /\ calls = <<>>

\* the record of one call of a copying or replacing method
FaxRecord(op, self, another, attrs, before, r) ==
    [op |-> op, self |-> self, other |-> another, attrs |-> attrs, kind |-> r.kind,
     before |-> before, after |-> r.st]

\* self.copy_selflinks_to_another(another, to_copy), another being a second
\* handler of the class of self
CallCopySelflinks ==
    /\ Len(calls) < MaxCopies
    /\ \E self \in DOMAIN handlerObjs, another \in DOMAIN handlerObjs :
          /\ self <= NClasses
          /\ another = self + NClasses
          /\ \E to_copy \in AttrLists(ClassOf(self)) :
                \E r \in {copy_selflinks_to_another(self, another, to_copy, GraphState)} :
                   /\ edges' = r.st.edges
                   /\ dataObjs' = r.st.dataObjs
                   /\ handlerObjs' = r.st.handlerObjs
                   /\ calls' = Append(calls, FaxRecord("copy_selflinks_to_another", self,
                                                       another, to_copy, GraphState, r))
    /\ UNCHANGED interpVars

\* self.replace_selflinks_w_replacementlinks(replacement, to_replace)
CallReplaceSelflinks ==
    /\ Len(calls) < MaxCopies
    /\ \E self \in DOMAIN handlerObjs, replacement \in DOMAIN handlerObjs :
          /\ self <= NClasses
          /\ replacement = self + NClasses
          /\ \E to_replace \in AttrLists(ClassOf(self)) :
                \E r \in {replace_selflinks_w_replacementlinks(self, replacement, to_replace,
                                                              GraphState)} :
                   /\ edges' = r.st.edges
                   /\ dataObjs' = r.st.dataObjs
                   /\ handlerObjs' = r.st.handlerObjs
                   /\ calls' = Append(calls,
                                      FaxRecord("replace_selflinks_w_replacementlinks", self,
                                                replacement, to_replace, GraphState, r))
    /\ UNCHANGED interpVars

FaxNext == CallCopySelflinks \/ CallReplaceSelflinks

SpecFax == FaxInit /\ [][FaxNext]_vars

----------------------------------------------------------------------------
(* Handler layer: binding a handler to a record *)

\* isinstance(data, self.data_type): the data type of a handler class is the
\* record type with the same position, and the two link-feature record types
\* are subtypes of Feature
IsOfDataType(data, self) == IsInstance(data, ClassOf(self))

\* Handler.add_data
add_data(self, data, st) ==
    IF ~IsOfDataType(data, self) THEN Raise(AssertionError, st)
    ELSE Ok([st EXCEPT !.handlerObjs[self].data = data,
                       !.dataObjs[data].handler = self])

\* two new handlers and the records of the store, none bound
BindInit ==
    /\ pieces = <<>>
    /\ pairs = <<>>
    /\ pieceFeatures = [p \in AllPieces |-> <<>>]
    /\ lastCall = NoCall
    /\ gen = IdleGen
    /\ statusObjs = <<InitialStatus>>
    /\ yielded = <<>>
    /\ \E hs \in HandlerPairs :
          handlerObjs = [h \in hs |-> [data |-> 0, delete_me |-> FALSE, plain |-> {}]]
    /\ dataObjs = [id \in RecordIds |-> [handler |-> 0, plain |-> {}]]
    /\ edges = [n \in RelationshipNames |-> <<>>]
    /\ calls = <<>>

\* self.add_data(data) for a handler and a record of the type of either handler
CallAddData ==
    /\ Len(calls) < MaxCalls
    /\ \E self \in DOMAIN handlerObjs :
          \E data \in {id \in RecordIds :
                          \E h \in DOMAIN handlerObjs : ClassOf(id) = ClassOf(h)} :
             \E r \in {add_data(self, data, GraphState)} :
                /\ edges' = r.st.edges
                /\ dataObjs' = r.st.dataObjs
                /\ handlerObjs' = r.st.handlerObjs
                /\ calls' = Append(calls, CallRecord("add_data", self, data, GraphState, r))
    /\ UNCHANGED interpVars

BindNext == CallAddData

SpecBind == BindInit /\ [][BindNext]_vars

----------------------------------------------------------------------------
(* Handler layer: copying the attributes of a record *)

KeyError == "KeyError"

\* the argument None of copy_only and do_not_copy
NoList == <<"None">>

IsScalar == "scalar"

\* self.copyable of each handler class, as its __init__ leaves it
copyable(class) ==
    CASE class = TranscribedHandler -> <<"given_id", "type">>
      [] class \in {TranscribedPieceHandler, TranslatedHandler} -> <<"given_id">>
      [] class \in FeatureClasses ->
            <<"given_id", "type", "start", "end", "coordinates", "is_plus_strand", "score",
              "source", "phase">>
      [] OTHER -> <<>>

\* the scalar and composite fields of a record type
ScalarFields(class) == {"given_id"} \cup {copyable(class)[k] : k \in 1..Len(copyable(class))}

\* the public names of type(self.data).__dict__: the identity field, the fields
\* and the relationships the record type declares
PublicClassAttrs(class) == {"id"} \cup ScalarFields(class) \cup RelationshipAttrs(class)

\* Handler.get_data_attribute
get_data_attribute(st, self, attr) ==
    LET Scalar(v) == [kind |-> IsScalar, items |-> <<v>>]
        PlainOr(plain, default) ==
            IF \E nv \in plain : nv[1] = attr
            THEN (CHOOSE nv \in plain : nv[1] = attr)[2] ELSE default
    IN  IF attr = "handler" THEN Scalar(HandlerOf(st, DataOf(st, self)))
        ELSE IF attr = "id"
        THEN Scalar(PlainOr(st.dataObjs[DataOf(st, self)].plain, DataOf(st, self)))
        ELSE IF attr \in RelationshipAttrs(ClassOf(DataOf(st, self)))
        THEN GetAttr(st, DataOf(st, self), attr)
        ELSE Scalar(PlainOr(st.dataObjs[DataOf(st, self)].plain, 0))

\* record.attr = items for a collection: the record's own entries are dropped
\* and one entry per item is made, an item with one owner leaving its former one
RECURSIVE SetCollection(_, _, _, _, _)
SetCollection(st, id, r, asOwner, items) ==
    LET Cleared ==
            [st EXCEPT !.edges[r.name] =
                SelectSeq(@, LAMBDA e : IF asOwner THEN e[1] # id ELSE e[2] # id)]
        Added(prev, item) ==
            [prev EXCEPT !.edges[r.name] =
                IF asOwner
                THEN Append(IF r.many THEN @ ELSE WithoutMember(@, item), <<id, item>>)
                ELSE Append(@, <<item, id>>)]
    IN  IF items = <<>> THEN Cleared
        ELSE Added(SetCollection(st, id, r, asOwner, SubSeq(items, 1, Len(items) - 1)),
                   items[Len(items)])

\* Handler.set_data_attribute
set_data_attribute(st, self, attr, val) ==
    LET id == DataOf(st, self)
        many == {r \in AsMember(id, attr) : r.many}
    IN  IF attr = "handler" THEN [st EXCEPT !.dataObjs[id].handler = val.items[1]]
        ELSE IF AsOwner(id, attr) # {}
        THEN SetCollection(st, id, CHOOSE r \in AsOwner(id, attr) : TRUE, TRUE, val.items)
        ELSE IF many # {}
        THEN SetCollection(st, id, CHOOSE r \in many : TRUE, FALSE, val.items)
        ELSE SetAttr(st, id, attr, IF val.items = <<>> THEN 0 ELSE val.items[1])

\* to_copy with nothing taken out of it
KeepingNeverCopied(to_copy) == to_copy

\* to_copy without the two fields that are never copied
WithoutNeverCopied(to_copy) == to_copy \ NeverCopied

\* the loop `for item in to_copy`, a set: each item is read from the record of
\* self and written to the record of other
RECURSIVE CopyItems(_, _, _, _)
CopyItems(st, self, other, to_copy) ==
    IF to_copy = {} THEN st
    ELSE LET Rest(item) ==
                 CopyItems(set_data_attribute(st, other, item,
                                              get_data_attribute(st, self, item)),
                           self, other, to_copy \ {item})
         IN  Rest(CHOOSE item \in to_copy : TRUE)

\* Handler.copy_data_attr_to_other; other = 0 is an object that is no Handler
copy_data_attr_to_other(self, other, copy_only, do_not_copy, st) ==
    LET AsSet(list) == {list[k] : k \in 1..Len(list)}
        Selected ==
            IF copy_only = NoList THEN PublicClassAttrs(ClassOf(DataOf(st, self)))
            ELSE AsSet(copy_only)
        Copy(to_copy) ==
            IF do_not_copy # NoList /\ ~(AsSet(do_not_copy) \subseteq to_copy)
            THEN Raise(KeyError, st)
            ELSE Ok(CopyItems(st, self, other,
                              WithoutNeverCopied(IF do_not_copy = NoList THEN to_copy
                                                 ELSE to_copy \ AsSet(do_not_copy))))
    IN  IF other = 0 THEN Raise(ValueError, st) ELSE Copy(Selected)

\* the lists handed over as copy_only and as do_not_copy
CopyOnlyLists(class) ==
    {NoList, <<"given_id">>, <<"id">>, <<"handler", "given_id">>, <<"id", "handler">>}
        \cup {<<a>> : a \in RelationshipAttrs(class)}

DoNotCopyLists == {NoList, <<"given_id">>, <<"handler">>}

\* two bound handlers of one class whose records differ in given_id, and at
\* most one relationship entry at either record
CopyInit ==
    /\ pieces = <<>>
    /\ pairs = <<>>
    /\ pieceFeatures = [p \in AllPieces |-> <<>>]
    /\ lastCall = NoCall
    /\ gen = IdleGen
    /\ statusObjs = <<InitialStatus>>
    /\ yielded = <<>>
    /\ \E self \in 1..NClasses :
          /\ handlerObjs = [h \in {self, self + NClasses} |->
                               [data |-> h, delete_me |-> FALSE, plain |-> {}]]
          /\ dataObjs = [id \in RecordIds |->
                            [handler |-> IF id \in DOMAIN handlerObjs THEN id ELSE 0,
                             plain |-> IF id \in DOMAIN handlerObjs
                                       THEN {<<"given_id", id>>} ELSE {}]]
          /\ \E pre \in {{}} \cup {{e} : e \in {x \in PossibleEdges :
                                                   {x[2], x[3]} \cap DOMAIN handlerObjs # {}}} :
                edges = [n \in RelationshipNames |->
                            IF \E e \in pre : e[1] = n
                            THEN LET e == CHOOSE x \in pre : x[1] = n IN <<<<e[2], e[3]>>>>
                            ELSE <<>>]
    /\ calls = <<>>

\* the record of one call of copy_data_attr_to_other
CopyRecord(self, other, copy_only, do_not_copy, before, r) ==
    [op |-> "copy_data_attr_to_other", self |-> self, other |-> other,
     copy_only |-> copy_only, do_not_copy |-> do_not_copy, kind |-> r.kind,
     before |-> before, after |-> r.st]

\* self.copy_data_attr_to_other(other, copy_only, do_not_copy)
CallCopyDataAttr ==
    /\ Len(calls) < MaxCopies
    /\ \E self \in DOMAIN handlerObjs, other \in DOMAIN handlerObjs \cup {0} :
          /\ self # other
          /\ \E copy_only \in CopyOnlyLists(ClassOf(self)), do_not_copy \in DoNotCopyLists :
                \E r \in {copy_data_attr_to_other(self, other, copy_only, do_not_copy,
                                                  GraphState)} :
                   /\ edges' = r.st.edges
                   /\ dataObjs' = r.st.dataObjs
                   /\ handlerObjs' = r.st.handlerObjs
                   /\ calls' = Append(calls, CopyRecord(self, other, copy_only, do_not_copy,
                                                        GraphState, r))
    /\ UNCHANGED interpVars

CopyNext == CallCopyDataAttr

SpecCopy == CopyInit /\ [][CopyNext]_vars

----------------------------------------------------------------------------
(* Properties of the piece orderer, stated over the store itself *)

\* the pairs owned by the interpreted transcript
OwnPairs == {pr \in Range(pairs) : pr.transcribed = ThisTranscript}

\* every piece of the store holding feature f
Holders(f) == {p \in AllPieces : f \in Range(pieceFeatures[p])}

\* pair pr joins piece a (holding its upstream feature) to piece b (holding its
\* downstream feature), both pieces of the transcript
Joins(pr, a, b) ==
    /\ a \in Range(pieces) /\ b \in Range(pieces)
    /\ a \in Holders(pr.upstream) /\ b \in Holders(pr.downstream)

PieceEdges ==
    {e \in Range(pieces) \X Range(pieces) : \E pr \in OwnPairs : Joins(pr, e[1], e[2])}

Successors(S) == {b \in Range(pieces) : \E a \in S : <<a, b>> \in PieceEdges}

Neighbours(S) ==
    {b \in Range(pieces) : \E a \in S : <<a, b>> \in PieceEdges \/ <<b, a>> \in PieceEdges}

RECURSIVE Descendants(_, _)
Descendants(S, k) == IF k = 0 THEN {} ELSE Successors(S) \cup Descendants(Successors(S), k - 1)

RECURSIVE Component(_, _)
Component(S, k) == IF k = 0 THEN S ELSE Component(S \cup Neighbours(S), k - 1)

\* the pairs of the transcript form one path q[1] -> q[2] -> ... covering its pieces
IsOnePath ==
    LET n == Len(pieces)
    IN  /\ Cardinality(OwnPairs) = n - 1
        /\ \E q \in [1..n -> Range(pieces)] :
              /\ Range(q) = Range(pieces)
              /\ \A i \in 1..(n - 1) :
                    \E pr \in OwnPairs : /\ Holders(pr.upstream) = {q[i]}
                                         /\ Holders(pr.downstream) = {q[i + 1]}

HasCycle == \E a \in Range(pieces) : a \in Descendants({a}, Len(pieces))

\* some piece has two distinct next pieces in one direction
Branches ==
    \E x, y, z \in Range(pieces) :
        /\ y # z
        /\ \/ <<x, y>> \in PieceEdges /\ <<x, z>> \in PieceEdges
           \/ <<y, x>> \in PieceEdges /\ <<z, x>> \in PieceEdges

SomePieceUnreachable == Component({pieces[1]}, Len(pieces)) # Range(pieces)

SortCalled == lastCall.op = "sort_pieces"

\* C1: when the transcript's pieces and pairs form one path covering the pieces,
\* sort_pieces returns a sequence holding every piece exactly once.
C1_PathIsFullyOrdered ==
    (SortCalled /\ IsOnePath) =>
        /\ lastCall.kind = Returned
        /\ Range(lastCall.ordered) = Range(pieces)
        /\ Len(lastCall.ordered) = Len(pieces)

\* a three-piece path whose seed is in the middle has been ordered
C1_Witness ==
    /\ SortCalled /\ IsOnePath /\ Len(pieces) = 3
    /\ lastCall.kind = Returned
    /\ lastCall.ordered[2] = pieces[1]

\* the two-piece scenario: piece1 holds DownstreamFeature F1, piece2 holds
\* UpstreamFeature F2, and the transcript's one pair is (upstream = F2, downstream = F1)
C2_Scenario(piece1, piece2) ==
    /\ Range(pieces) = {piece1, piece2} /\ piece1 # piece2
    /\ Cardinality(OwnPairs) = 1
    /\ \A pr \in OwnPairs : /\ pr.upstream.kind = "UpstreamFeature"
                            /\ pr.downstream.kind = "DownstreamFeature"
                            /\ Holders(pr.upstream) = {piece2}
                            /\ Holders(pr.downstream) = {piece1}

C3_AsStated ==
    (SortCalled /\ HasCycle) => lastCall.kind = IndecipherableLinkageError

\* C3 (amended): with a cycle among the pieces sort_pieces never returns a
\* sequence; it fails with IndecipherableLinkageError or, as when the seed is not
\* linked to the cycle, with the AssertionError of its closing check.
C3_CycleNeverOrdered ==
    (SortCalled /\ HasCycle) =>
        lastCall.kind \in {IndecipherableLinkageError, AssertionError}

\* a cycle reached from a seed that is not on it has been refused
C3_Witness ==
    /\ SortCalled /\ HasCycle
    /\ pieces[1] \notin Descendants({pieces[1]}, Len(pieces))
    /\ lastCall.kind = IndecipherableLinkageError

\* C4: a branching link set makes sort_pieces fail; it never returns a sequence
\* that silently follows one branch. (The claim names the fault
\* IndecipherableLinkageError; the statement here only asks for a failure.)
C4_BranchNeverOrdered ==
    (SortCalled /\ Branches) => lastCall.kind # Returned

\* C5: sort_pieces never returns a sequence that omits a piece, and it fails
\* when a piece cannot be reached from the seed through the transcript's pairs.
C5_NoPieceOmitted ==
    SortCalled =>
        /\ lastCall.kind = Returned => Range(lastCall.ordered) = Range(pieces)
        /\ SomePieceUnreachable => lastCall.kind # Returned

\* a transcript with a piece that no pair reaches has been refused
C5_Witness ==
    /\ SortCalled /\ SomePieceUnreachable /\ OwnPairs # {}
    /\ lastCall.kind = AssertionError

\* the pairs of the transcript whose downstream slot is a DownstreamFeature of the piece
PairsIntoPiece(piece) ==
    {pr \in OwnPairs : pr.downstream.kind = "DownstreamFeature" /\ piece \in Holders(pr.downstream)}

\* the pairs of the transcript whose upstream slot is an UpstreamFeature of the piece
PairsOutOfPiece(piece) ==
    {pr \in OwnPairs : pr.upstream.kind = "UpstreamFeature" /\ piece \in Holders(pr.upstream)}

LinkOutcomeFor(matching) ==
    /\ matching = {} => (lastCall.kind = ReturnedNone /\ lastCall.link = <<>>)
    /\ Cardinality(matching) = 1 =>
           (lastCall.kind = Returned /\ Len(lastCall.link) = 1 /\ Range(lastCall.link) = matching)
    /\ Cardinality(matching) > 1 => lastCall.kind = IndecipherableLinkageError

----------------------------------------------------------------------------
(* Properties of the triple stream *)

\* the status every field of which is false / none
AllFalseStatus ==
    [genic |-> FALSE, in_intron |-> FALSE, in_trans_intron |-> FALSE,
     in_translated_region |-> FALSE, seen_start |-> FALSE, seen_stop |-> FALSE,
     erroneous |-> FALSE, phase |-> NoPhase]

\* the transition table of the status machine: type x bearing -> effect
TableEffect(status, f) ==
    LET opens == f.bearing \in {START, OPEN_STATUS}
    IN  CASE f.type = TRANSCRIBED -> [status EXCEPT !.genic = opens]
          [] f.type = INTRON -> [status EXCEPT !.in_intron = opens]
          [] f.type = TRANS_INTRON -> [status EXCEPT !.in_trans_intron = opens]
          [] f.type = ERROR -> [status EXCEPT !.erroneous = opens]
          [] f.type = CODING /\ f.bearing = START ->
                [status EXCEPT !.in_translated_region = TRUE, !.seen_start = TRUE,
                               !.phase = 0]
          [] f.type = CODING /\ f.bearing = OPEN_STATUS ->
                [status EXCEPT !.in_translated_region = TRUE, !.seen_start = TRUE,
                               !.phase = f.phase]
          [] f.type = CODING /\ f.bearing = CLOSE_STATUS ->
                [status EXCEPT !.in_translated_region = FALSE]
          [] f.type = CODING /\ f.bearing = END ->
                [status EXCEPT !.in_translated_region = FALSE, !.seen_stop = TRUE,
                               !.phase = NoPhase]

RECURSIVE TableEffectOfGroup(_, _)
TableEffectOfGroup(status, group) ==
    IF group = <<>> THEN status
    ELSE TableEffectOfGroup(TableEffect(status, Head(group)), Tail(group))

\* the (group, piece) pairs the pieces owe, piece by piece, up to the first piece
\* whose features cannot be sorted
RECURSIVE GroupsOfPieces(_)
GroupsOfPieces(ordered) ==
    IF ordered = <<>> THEN <<>>
    ELSE LET sorted == SortedFeatures(Head(ordered))
             groups == FullStackMatches(sorted.features)
         IN  IF sorted.kind # Returned THEN <<>>
             ELSE [k \in 1..Len(groups) |-> [features |-> groups[k], piece |-> Head(ordered)]]
                  \o GroupsOfPieces(Tail(ordered))

OwedGroups == IF SortPieces.kind = Returned THEN GroupsOfPieces(SortPieces.value) ELSE <<>>

\* C8: the stream holds one triple per feature group, pieces in the order of
\* sort_pieces and groups in stacker order; each status is the table's effect of
\* the group's features on the status of the previous triple, starting all-false
\* and carried across piece boundaries.
C8_OneTriplePerGroupStatusChained ==
    LET owed == OwedGroups
    IN  /\ Len(yielded) <= Len(owed)
        /\ \A i \in 1..Len(yielded) :
              /\ yielded[i].features = owed[i].features
              /\ yielded[i].piece = owed[i].piece
              /\ statusObjs[yielded[i].status] =
                    TableEffectOfGroup(IF i = 1 THEN AllFalseStatus
                                       ELSE statusObjs[yielded[i - 1].status],
                                       yielded[i].features)
        /\ gen.state = "exhausted" => Len(yielded) = Len(owed)

\* a stream over two pieces was pulled to its end; it held a group of two
\* features and a coding END
C8_Witness ==
    /\ gen.state = "exhausted"
    /\ Len(yielded) >= 3
    /\ yielded[1].piece # yielded[Len(yielded)].piece
    /\ \E i \in 1..Len(yielded) : Len(yielded[i].features) = 2
    /\ \E i \in 1..Len(yielded) :
          yielded[i].features[1].type = CODING /\ yielded[i].features[1].bearing = END

\* C9: pulling further triples never changes the field values of a status
\* snapshot that was yielded earlier.
C9_SnapshotsNeverChange ==
    [][\A i \in 1..Len(yielded) :
          statusObjs'[yielded[i].status] = statusObjs[yielded[i].status]]_vars

\* the generator's status has moved on from the first snapshot
C9_Witness ==
    /\ Len(yielded) >= 2
    /\ statusObjs[yielded[1].status] # statusObjs[1]
    /\ statusObjs[yielded[1].status] # statusObjs[yielded[2].status]

\* triples i and j come from one tied position of one piece
Tied(i, j) ==
    /\ yielded[i].piece = yielded[j].piece
    /\ yielded[i].features[1].position = yielded[j].features[1].position

BearingOfTriple(i) == yielded[i].features[1].bearing

EmissionOrder == <<END, CLOSE_STATUS, OPEN_STATUS, START>>

EmissionRank(bearing) == CHOOSE k \in 1..Len(EmissionOrder) : EmissionOrder[k] = bearing

----------------------------------------------------------------------------
(* Properties of the feature stacker and of the faults of the stream *)

\* the groups of one piece, for a piece whose features can be sorted
GroupsOfPiece(piece) == FullStackMatches(SortedFeatures(piece).features)

\* how often feature f occurs in the groups
Occurrences(groups, f) ==
    Cardinality({ki \in (1..Len(groups)) \X (1..MaxFeatures + 2) :
                    ki[2] <= Len(groups[ki[1]]) /\ groups[ki[1]][ki[2]] = f})

IsPartition(groups, features) ==
    /\ \A k \in 1..Len(groups) : groups[k] # <<>>
    /\ \A k \in 1..Len(groups) : \A i \in 1..Len(groups[k]) :
          /\ groups[k][i] \in Range(features)
          /\ groups[k][i].position = groups[k][1].position
          /\ groups[k][i].bearing = groups[k][1].bearing
    /\ \A f \in Range(features) : Occurrences(groups, f) = 1

\* C11: the groups of full_stack_matches over sorted_features(piece) partition
\* the piece's features: every feature is in exactly one group, no group is
\* empty, and the features of a group share position key and bearing; the groups
\* the stream has yielded are such groups.
C11_GroupsPartitionThePiece ==
    /\ \A p \in Range(pieces) :
          SortedFeatures(p).kind = Returned => IsPartition(GroupsOfPiece(p), pieceFeatures[p])
    /\ \A i \in 1..Len(yielded) :
          \E k \in 1..Len(GroupsOfPiece(yielded[i].piece)) :
              GroupsOfPiece(yielded[i].piece)[k] = yielded[i].features

\* a piece of three features came out as a group of two and a group of one
C11_Witness ==
    /\ gen.state = "exhausted"
    /\ \E i, j \in 1..Len(yielded) :
          /\ i # j
          /\ yielded[i].piece = yielded[j].piece
          /\ Len(yielded[i].features) = 2
          /\ Len(pieceFeatures[yielded[i].piece]) = 3

\* C12: from one group of a piece to the next the position key never decreases
\* on the plus strand and never increases on the minus strand.
C12_PositionsFollowTheStrand ==
    \A i \in 1..Len(yielded) :
        (i > 1 /\ yielded[i - 1].piece = yielded[i].piece) =>
            IF yielded[i].features[1].is_plus_strand
            THEN yielded[i - 1].features[1].position <= yielded[i].features[1].position
            ELSE yielded[i - 1].features[1].position >= yielded[i].features[1].position

\* two groups of a minus-strand piece, the position going down
C12_Witness ==
    \E i \in 2..Len(yielded) :
        /\ yielded[i - 1].piece = yielded[i].piece
        /\ ~yielded[i].features[1].is_plus_strand
        /\ yielded[i - 1].features[1].position > yielded[i].features[1].position

\* the features of the piece disagree on the strand or on the coordinates region
MixedPiece(p) ==
    \E i, j \in 1..Len(pieceFeatures[p]) :
        \/ pieceFeatures[p][i].is_plus_strand # pieceFeatures[p][j].is_plus_strand
        \/ pieceFeatures[p][i].coordinates # pieceFeatures[p][j].coordinates

MixedStrandPiece(p) ==
    \E i, j \in 1..Len(pieceFeatures[p]) :
        pieceFeatures[p][i].is_plus_strand # pieceFeatures[p][j].is_plus_strand

\* C13: sorted_features on a piece whose features mix strands or coordinates
\* regions raises the structural consistency fault (the failed assert of the
\* function) and returns no feature list; a stream over such a piece never ends
\* normally.
C13_MixedPieceIsAFault ==
    /\ \A p \in Range(pieces) :
          MixedPiece(p) =>
              SortedFeatures(p) = [kind |-> AssertionError, features |-> <<>>]
    /\ gen.state = "exhausted" => \A p \in Range(pieces) : ~MixedPiece(p)

\* the stream reached a piece of mixed strands and failed there
C13_Witness ==
    /\ gen.state = "failed" /\ gen.last = AssertionError
    /\ SortPieces.kind = Returned
    /\ \E p \in Range(pieces) : MixedStrandPiece(p)
    /\ \E p \in Range(pieces) : MixedPiece(p) /\ ~MixedStrandPiece(p)

\* every feature of the group has the POINT bearing
IsPointGroup(group) == \A i \in 1..Len(group) : group[i].bearing = POINT

LastSnapshot ==
    IF yielded = <<>> THEN AllFalseStatus ELSE statusObjs[yielded[Len(yielded)].status]

\* C18: a feature whose bearing is POINT makes the update fail and leaves the
\* status as it was; the stream fails when the group of such a feature is
\* reached, so a stream that ends normally has met none.
C18_PointBearingIsAFault ==
    /\ \A p \in Range(pieces) : \A i \in 1..Len(pieceFeatures[p]) :
          pieceFeatures[p][i].bearing = POINT =>
              UpdateStatus(statusObjs[1], <<pieceFeatures[p][i]>>)
                  = [kind |-> ValueError, status |-> statusObjs[1]]
    /\ gen.last = ValueError =>
          /\ gen.state = "failed"
          /\ Len(OwedGroups) > Len(yielded)
          /\ IsPointGroup(OwedGroups[Len(yielded) + 1].features)
          /\ statusObjs[1] = LastSnapshot
    /\ gen.state = "exhausted" =>
          \A p \in Range(pieces) : \A i \in 1..Len(pieceFeatures[p]) :
              pieceFeatures[p][i].bearing # POINT

\* the stream yielded a triple and then failed at a POINT group
C18_Witness ==
    /\ gen.last = ValueError
    /\ Len(yielded) >= 1
    /\ statusObjs[1] # AllFalseStatus

\* the first piece, in the order of sort_pieces, whose features disagree
FirstMixed(ordered) ==
    CHOOSE k \in 1..Len(ordered) :
        /\ MixedPiece(ordered[k])
        /\ \A j \in 1..(k - 1) : ~MixedPiece(ordered[j])

\* C19: an inconsistency among the features of a piece does not make
\* sort_pieces fail; the stream raises the fault for piece k only after it has
\* yielded every triple of the pieces ordered before k.
C19_FaultOnlyWhenPieceIsReached ==
    /\ IsOnePath => SortPieces.kind = Returned
    /\ (gen.last = AssertionError /\ SortPieces.kind = Returned) =>
          LET ordered == SortPieces.value
              before == GroupsOfPieces(SubSeq(ordered, 1, FirstMixed(ordered) - 1))
          IN  /\ \E k \in 1..Len(ordered) : MixedPiece(ordered[k])
              /\ Len(yielded) = Len(before)
              /\ \A i \in 1..Len(yielded) :
                    /\ yielded[i].features = before[i].features
                    /\ yielded[i].piece = before[i].piece

\* the second piece of the order is the inconsistent one; the triples of the
\* first piece were yielded before the fault
C19_Witness ==
    /\ gen.last = AssertionError
    /\ SortPieces.kind = Returned
    /\ Len(yielded) >= 2
    /\ MixedPiece(SortPieces.value[2])

----------------------------------------------------------------------------
(* Properties of the status machine *)

FourBearings == {START, OPEN_STATUS, CLOSE_STATUS, END}

\* the status with the one flag of a non-coding type set to `value`
WithFlag(status, type, value) ==
    CASE type = TRANSCRIBED -> [status EXCEPT !.genic = value]
      [] type = INTRON -> [status EXCEPT !.in_intron = value]
      [] type = TRANS_INTRON -> [status EXCEPT !.in_trans_intron = value]
      [] type = ERROR -> [status EXCEPT !.erroneous = value]

\* C14: for a feature of type transcription, intron, trans-intron or error,
\* START or OPEN_STATUS sets exactly the flag of the type to true and END or
\* CLOSE_STATUS sets it to false; every other field of the status stays as it was.
C14_OnlyTheFlagOfTheTypeChanges ==
    [][\A f \in StatusFeatures :
          (/\ lastCall' = [op |-> "update_status", piece |-> 0, kind |-> Returned,
                           ordered |-> <<>>, link |-> <<f>>]
           /\ f.type \in {TRANSCRIBED, INTRON, TRANS_INTRON, ERROR}
           /\ f.bearing \in FourBearings)
          => statusObjs'[1] = WithFlag(statusObjs[1], f.type,
                                       f.bearing \in {START, OPEN_STATUS})]_vars

\* an error region was closed in a status that keeps its phase, its seen start
\* and its other flags
C14_Witness ==
    /\ lastCall.op = "update_status"
    /\ lastCall.link[1].type = ERROR /\ lastCall.link[1].bearing = CLOSE_STATUS
    /\ statusObjs[1] = [genic |-> TRUE, in_intron |-> TRUE, in_trans_intron |-> FALSE,
                        in_translated_region |-> TRUE, seen_start |-> TRUE,
                        seen_stop |-> FALSE, erroneous |-> FALSE, phase |-> 2]

\* the effect of a coding feature, bearing by bearing
CodingEffect(status, f) ==
    CASE f.bearing = START ->
            [status EXCEPT !.in_translated_region = TRUE, !.seen_start = TRUE, !.phase = 0]
      [] f.bearing = OPEN_STATUS ->
            [status EXCEPT !.in_translated_region = TRUE, !.seen_start = TRUE,
                           !.phase = f.phase]
      [] f.bearing = CLOSE_STATUS -> [status EXCEPT !.in_translated_region = FALSE]
      [] f.bearing = END ->
            [status EXCEPT !.in_translated_region = FALSE, !.seen_stop = TRUE,
                           !.phase = NoPhase]

\* C15: for a coding feature START sets in_translated_region, seen_start and
\* phase 0; OPEN_STATUS sets in_translated_region, seen_start and the phase of
\* the feature; CLOSE_STATUS only clears in_translated_region; END clears
\* in_translated_region, sets seen_stop and sets the phase to none.
C15_CodingTransitions ==
    [][\A f \in StatusFeatures :
          (/\ lastCall' = [op |-> "update_status", piece |-> 0, kind |-> Returned,
                           ordered |-> <<>>, link |-> <<f>>]
           /\ f.type = CODING
           /\ f.bearing \in FourBearings)
          => statusObjs'[1] = CodingEffect(statusObjs[1], f)]_vars

\* a coding CLOSE_STATUS left the phase and the unseen stop as they were
C15_Witness ==
    /\ lastCall.op = "update_status"
    /\ lastCall.link[1].type = CODING /\ lastCall.link[1].bearing = CLOSE_STATUS
    /\ statusObjs[1].phase = 2
    /\ statusObjs[1].seen_start /\ ~statusObjs[1].seen_stop
    /\ ~statusObjs[1].in_translated_region

\* the replay so far went through these (type, bearing) steps
Replayed(steps) ==
    /\ Len(yielded) = Len(steps)
    /\ \A i \in 1..Len(steps) :
          /\ yielded[i].features[1].type = steps[i][1]
          /\ yielded[i].features[1].bearing = steps[i][2]

StatusRead == statusObjs[yielded[Len(yielded)].status]

\* C16 as stated: after transcription/START on the initial status is_5p_utr is
\* false, is_intergenic is false and genic is true.
C16_AsStated ==
    Replayed(<<<<TRANSCRIBED, START>>>>) =>
        /\ ~is_5p_utr(StatusRead)
        /\ ~is_intergenic(StatusRead)
        /\ StatusRead.genic

\* C16 (amended): after transcription/START on the initial status is_5p_utr is
\* true, is_intergenic is false and genic is true.
C16_AfterTranscriptionStart ==
    Replayed(<<<<TRANSCRIBED, START>>>>) =>
        /\ is_5p_utr(StatusRead)
        /\ ~is_intergenic(StatusRead)
        /\ StatusRead.genic

\* the one step was replayed and left the status in the 5' UTR
C16_Witness == Replayed(<<<<TRANSCRIBED, START>>>>) /\ is_5p_utr(StatusRead)

\* C17: replaying transcription/START, coding/START, coding/END,
\* transcription/END from the initial status gives is_coding after the second
\* step, is_3p_utr after the third and is_intergenic after the fourth.
C17_ReplayOfOneTranscript ==
    /\ Replayed(<<<<TRANSCRIBED, START>>, <<CODING, START>>>>) => is_coding(StatusRead)
    /\ Replayed(<<<<TRANSCRIBED, START>>, <<CODING, START>>, <<CODING, END>>>>)
          => is_3p_utr(StatusRead)
    /\ Replayed(<<<<TRANSCRIBED, START>>, <<CODING, START>>, <<CODING, END>>,
                  <<TRANSCRIBED, END>>>>)
          => is_intergenic(StatusRead)

\* the four steps were replayed
C17_Witness ==
    /\ Replayed(<<<<TRANSCRIBED, START>>, <<CODING, START>>, <<CODING, END>>,
                  <<TRANSCRIBED, END>>>>)
    /\ is_coding(statusObjs[yielded[2].status])
    /\ is_3p_utr(statusObjs[yielded[3].status])
    /\ is_intergenic(StatusRead)

----------------------------------------------------------------------------
(* Properties of the handler layer: linking and de-linking *)

\* everything a record and its handler hold of relationships: the entries of
\* every relationship the record takes part in, and the plain attributes
RelationsOf(st, handler) ==
    [entries |-> [n \in RelationshipNames |->
                     SelectSeq(st.edges[n],
                               LAMBDA e : DataOf(st, handler) \in {e[1], e[2]})],
     data |-> st.dataObjs[DataOf(st, handler)].plain,
     handler |-> st.handlerObjs[handler].plain]

\* no relationship joins the records of the two handlers of call i before it
NotYetLinked(i) ==
    LET Joined(a, b) ==
            \E n \in RelationshipNames :
                \E k \in 1..Len(calls[i].before.edges[n]) :
                    calls[i].before.edges[n][k] \in {<<a, b>>, <<b, a>>}
    IN  ~Joined(DataOf(calls[i].before, calls[i].self),
                DataOf(calls[i].before, calls[i].other))

\* call i is A.link_to(B) for a valid pair (A, B) not yet linked, and call
\* i + 1 is A.de_link(B)
LinkThenDeLink(i) ==
    /\ i + 1 <= Len(calls)
    /\ calls[i].op = "link_to"
    /\ calls[i + 1].op = "de_link"
    /\ calls[i + 1].self = calls[i].self
    /\ calls[i + 1].other = calls[i].other
    /\ IsValidLink(calls[i].self, calls[i].other)
    /\ NotYetLinked(i)

\* C20 as the specification states it: for every valid pair (A, B),
\* A.link_to(B) followed by A.de_link(B) returns and leaves the relationship
\* collections and references of B as they were before the link. The code does
\* not do this: a TranscribedHandler sets piece.transcribed and de-links with
\* piece.transcribeds.remove, which raises and leaves the link in place; a
\* Downstream/UpstreamFeatureHandler sets the slot on the handler of the pair
\* and nulls the slot of its record.
C20_AsStated ==
    \A i \in 1..Len(calls) :
        LinkThenDeLink(i) =>
            /\ calls[i].kind = Returned
            /\ calls[i + 1].kind = Returned
            /\ RelationsOf(calls[i + 1].after, calls[i].other)
                   = RelationsOf(calls[i].before, calls[i].other)

\* call i has a target whose kind its handler does not accept
InvalidKindCall(i) == ~IsValidLink(calls[i].self, calls[i].other)

\* C21: for a handler A and a handler B of a kind that is not among the
\* accepted target kinds of A, A.link_to(B) and A.de_link(B) both raise the
\* ValueError of _link_value_error and leave the records, their relationships
\* and the handlers as they were.
C21_InvalidKindRaisesAndChangesNothing ==
    \A i \in 1..Len(calls) :
        InvalidKindCall(i) =>
            /\ calls[i].kind = ValueError
            /\ calls[i].after = calls[i].before

\* an invalid link_to followed by an invalid de_link, both made on a graph
\* that holds a relationship entry
C21_Witness ==
    /\ Len(calls) = 2
    /\ calls[1].op = "link_to" /\ InvalidKindCall(1)
    /\ calls[2].op = "de_link" /\ InvalidKindCall(2)
    /\ \E n \in RelationshipNames : edges[n] # <<>>

\* call i is A.de_link(B) for a valid pair (A, B) that no relationship joins
DeLinkOfAbsentLink(i) ==
    /\ calls[i].op = "de_link"
    /\ IsValidLink(calls[i].self, calls[i].other)
    /\ NotYetLinked(i)

\* C22 as the specification states it: A.de_link(B) for A and B that are not
\* linked fails and leaves every relationship of B as it was. The code does not
\* do this for the singular references: SuperLocusHandler.de_link,
\* TranscribedHandler.de_link of a pair and Downstream/UpstreamFeatureHandler
\* .de_link of a pair assign None without looking at the reference, so the call
\* returns and a reference of B to another record is nulled.
C22_AsStated ==
    \A i \in 1..Len(calls) :
        DeLinkOfAbsentLink(i) =>
            /\ calls[i].kind # Returned
            /\ RelationsOf(calls[i].after, calls[i].other)
                   = RelationsOf(calls[i].before, calls[i].other)

\* the slot (`upstream` or `downstream`) of the record of the pair handler
\* references the record of the feature handler: the entry is in the
\* relationship that backs the slot
SlotReferences(st, slot, pair, feature) ==
    \E r \in AsMember(DataOf(st, pair), slot) :
        \E k \in 1..Len(st.edges[r.name]) :
            st.edges[r.name][k] = <<DataOf(st, feature), DataOf(st, pair)>>

\* C23 as the specification states it: after DownstreamFeatureHandler
\* .link_to(pair_handler) the downstream slot of the UpDownPair record references
\* the record of the feature, and likewise for UpstreamFeatureHandler and the
\* upstream slot. The code assigns `other.downstream` / `other.upstream`, an
\* attribute of the handler of the pair, and leaves the record untouched.
C23_AsStated ==
    \A i \in 1..Len(calls) :
        /\ (/\ calls[i].op = "link_to"
            /\ ClassOf(calls[i].self) = DownstreamFeatureHandler
            /\ ClassOf(calls[i].other) = UpDownPairHandler)
           => SlotReferences(calls[i].after, "downstream", calls[i].other, calls[i].self)
        /\ (/\ calls[i].op = "link_to"
            /\ ClassOf(calls[i].self) = UpstreamFeatureHandler
            /\ ClassOf(calls[i].other) = UpDownPairHandler)
           => SlotReferences(calls[i].after, "upstream", calls[i].other, calls[i].self)

----------------------------------------------------------------------------
(* Properties of the handler layer: copying and replacing links *)

\* the records related to the record of a handler through a relationship
Related(st, handler, attr) ==
    LET ItemsOf(val) == {val.items[k] : k \in 1..Len(val.items)}
    IN  ItemsOf(GetAttr(st, DataOf(st, handler), attr))

\* the relationships named in call i
NamedIn(i) == {calls[i].attrs[k] : k \in 1..Len(calls[i].attrs)}

\* C24 as the specification states it: after copy_selflinks_to_another
\* returns, every record that was related to the source through a named
\* relationship is related to the target through it and is still related to the
\* source. The code does not do this: a record that has one owner is moved to
\* the target, and the pairs of a Downstream/UpstreamFeature are attached to
\* nothing, the link being written on the handler of the pair.
C24_AsStated ==
    \A i \in 1..Len(calls) :
        (calls[i].op = "copy_selflinks_to_another" /\ calls[i].kind = Returned) =>
            \A attr \in NamedIn(i) :
                \A d \in Related(calls[i].before, calls[i].self, attr) :
                    /\ d \in Related(calls[i].after, calls[i].other, attr)
                    /\ d \in Related(calls[i].after, calls[i].self, attr)

\* C25 as the specification states it: after replace_selflinks_w_replacementlinks
\* returns, no record is related to self through a named relationship and every
\* record that was is related to the replacement through it. The code does not
\* do this for the pairs of a Downstream/UpstreamFeature: the pair is de-linked
\* from self and the new link is written on the handler of the pair.
C25_AsStated ==
    \A i \in 1..Len(calls) :
        (calls[i].op = "replace_selflinks_w_replacementlinks" /\ calls[i].kind = Returned) =>
            \A attr \in NamedIn(i) :
                /\ Related(calls[i].after, calls[i].self, attr) = {}
                /\ Related(calls[i].before, calls[i].self, attr)
                       \subseteq Related(calls[i].after, calls[i].other, attr)

----------------------------------------------------------------------------
(* Properties of the handler layer: binding *)

\* C26 as the specification states it: add_data on a handler that already
\* holds a record fails and leaves the handler's record and the back-pointers of
\* the records as they were. The code has no such test: add_data asserts the
\* type of the record only, so the handler takes the new record and the old
\* record keeps pointing at the handler.
C26_AsStated ==
    \A i \in 1..Len(calls) :
        (calls[i].op = "add_data" /\ DataOf(calls[i].before, calls[i].self) # 0) =>
            /\ calls[i].kind # Returned
            /\ calls[i].after = calls[i].before

\* C27 as the specification states it: after any sequence of add_data calls
\* a handler h holds the record r exactly when r.handler is h, so a record is
\* bound to one handler at most. The code breaks this with a second add_data on
\* a bound handler and with add_data of a record that another handler holds.
C27_AsStated ==
    \A h \in DOMAIN handlerObjs :
        \A r \in RecordIds :
            (handlerObjs[h].data = r) <=> (dataObjs[r].handler = h)

----------------------------------------------------------------------------
(* Properties of the handler layer: copying attributes *)

\* the identity field and the back-pointer of the record of a handler
IdentityOf(st, handler) ==
    [id |-> get_data_attribute(st, handler, "id").items[1],
     handler |-> HandlerOf(st, DataOf(st, handler))]

\* call i is copy_data_attr_to_other on a target that is a Handler
CopyCall(i) == calls[i].op = "copy_data_attr_to_other" /\ calls[i].other # 0

\* the list copy_only of call i names `id` or `handler`
NamesNeverCopied(i) ==
    /\ calls[i].copy_only # NoList
    /\ \E k \in 1..Len(calls[i].copy_only) : calls[i].copy_only[k] \in NeverCopied

\* C28: copy_data_attr_to_other never changes the id or the handler of the
\* target record, whatever copy_only and do_not_copy are, also when copy_only
\* names them.
C28_IdentityAndBackPointerKept ==
    \A i \in 1..Len(calls) :
        CopyCall(i) =>
            IdentityOf(calls[i].after, calls[i].other)
                = IdentityOf(calls[i].before, calls[i].other)

\* a call whose copy_only names `handler` has copied given_id to the target
C28_Witness ==
    \E i \in 1..Len(calls) :
        /\ CopyCall(i)
        /\ calls[i].copy_only = <<"handler", "given_id">>
        /\ calls[i].kind = Returned
        /\ get_data_attribute(calls[i].after, calls[i].other, "given_id")
               = get_data_attribute(calls[i].before, calls[i].self, "given_id")
        /\ get_data_attribute(calls[i].before, calls[i].other, "given_id")
               # get_data_attribute(calls[i].before, calls[i].self, "given_id")

\* C29 as the specification states it: copy_data_attr_to_other with a
\* copy_only that names `id` or `handler` fails and copies nothing. The code
\* does not fail: it takes the two names out of the set without a word and
\* copies the rest.
C29_AsStated ==
    \A i \in 1..Len(calls) :
        (CopyCall(i) /\ NamesNeverCopied(i)) =>
            /\ calls[i].kind # Returned
            /\ calls[i].after = calls[i].before

\* C30 as the specification states it: copy_data_attr_to_other without
\* copy_only leaves the relationship collections and references of the target
\* as they were. The code takes every public name of the class of the record,
\* the relationships among them, and assigns each to the target.
C30_AsStated ==
    \A i \in 1..Len(calls) :
        (CopyCall(i) /\ calls[i].copy_only = NoList /\ calls[i].kind = Returned) =>
            RelationsOf(calls[i].after, calls[i].other).entries
                = RelationsOf(calls[i].before, calls[i].other).entries

----------------------------------------------------------------------------
(* Properties of the status machine: the classification of a status *)

\* C39: in every status reachable from the initial one by update_status, one
\* at least of is_intergenic, is_utr, is_coding, is_intronic, is_trans_intronic
\* holds, is_intergenic holds with none of the other four, and no two of is_utr,
\* is_coding and is_intronic hold together.
C39_ClassificationOfAStatus ==
    LET Classes(status) ==
            [intergenic |-> is_intergenic(status), utr |-> is_utr(status),
             coding |-> is_coding(status), intronic |-> is_intronic(status),
             trans_intronic |-> is_trans_intronic(status)]
        Sound(c) ==
            /\ c.intergenic \/ c.utr \/ c.coding \/ c.intronic \/ c.trans_intronic
            /\ c.intergenic => ~(c.utr \/ c.coding \/ c.intronic \/ c.trans_intronic)
            /\ ~(c.utr /\ c.coding)
            /\ ~(c.utr /\ c.intronic)
            /\ ~(c.coding /\ c.intronic)
    IN  Sound(Classes(statusObjs[1]))

\* update_status has reached a status that has left the gene with an intron of
\* the translated region still open
C39_Witness ==
    /\ lastCall.op = "update_status"
    /\ lastCall.kind = Returned
    /\ statusObjs[1].in_intron
    /\ ~statusObjs[1].genic
    /\ statusObjs[1].in_translated_region

----------------------------------------------------------------------------
(* Properties of the handler layer: the accepted kinds *)

\* C38 as the specification states it: when the handler A accepts the handler
\* B as target of link_to and de_link, B accepts A. The code does not do this
\* for one pair: a TranscribedPieceHandler accepts a SuperLocusHandler, and a
\* SuperLocusHandler raises for a TranscribedPieceHandler.
C38_AsStated ==
    \A a \in DOMAIN handlerObjs, b \in DOMAIN handlerObjs :
        IsValidLink(a, b) => IsValidLink(b, a)

----------------------------------------------------------------------------
(* Properties of the triple stream: a piece without features *)

\* a piece of the streamed transcript has no features
SomePieceWithoutFeatures == \E i \in 1..Len(pieces) : pieceFeatures[pieces[i]] = <<>>

\* C37 as the specification states it: a transcript with a piece that has no
\* features is streamed without a failure, the piece giving no group. The code
\* does not do this: sorted_features reads features[0] of the sorted (empty)
\* list and the generator ends with an IndexError.
C37_AsStated ==
    SomePieceWithoutFeatures => gen.state # "failed" \/ gen.last # IndexError

----------------------------------------------------------------------------
(* sort_pieces, iteration by iteration of its two extension loops *)

\* the positions of a running sort_pieces and its outcomes
ExtendingDownstream == "extending downstream"

ExtendingUpstream == "extending upstream"

LoopOutcomes == {Returned, IndexError, IndecipherableLinkageError, AssertionError}

\* variant: a piece that is already ordered is passed over and the loop goes on
ExtendToEndIterationPassingOver(ordered_pieces, downstream) ==
    LET WithPiece(nextpiece) ==
            IF nextpiece.kind = AssertionError
            THEN [kind |-> AssertionError, ordered |-> ordered_pieces]
            ELSE IF nextpiece.piece \in Range(ordered_pieces)
            THEN [kind |-> "continue", ordered |-> ordered_pieces]
            ELSE [kind |-> "continue",
                  ordered |-> ExtendByOne(ordered_pieces, nextpiece.piece, downstream)]
        WithLink(nextlink) ==
            IF nextlink.kind = IndecipherableLinkageError
            THEN [kind |-> IndecipherableLinkageError, ordered |-> ordered_pieces]
            ELSE IF nextlink.kind = ReturnedNone
            THEN [kind |-> "break", ordered |-> ordered_pieces]
            ELSE CHOOSE r \in {WithPiece(nextpiece) :
                                  nextpiece \in {GetOnePieceFromStream(
                                                     IF downstream
                                                     THEN nextlink.link[1].downstream
                                                     ELSE nextlink.link[1].upstream)}} : TRUE
    IN  IF ordered_pieces = <<>> THEN [kind |-> IndexError, ordered |-> ordered_pieces]
        ELSE CHOOSE r \in {WithLink(nextlink) :
                              nextlink \in {IF downstream
                                            THEN GetDownstreamLink(ordered_pieces[Len(ordered_pieces)])
                                            ELSE GetUpstreamLink(ordered_pieces[1])}} : TRUE

\* one iteration of the loop of _extend_to_end: ordered_pieces[latest_i] of an
\* empty list fails; no link ends the loop; a piece already ordered is the
\* circular linkage fault; any other piece is added at the end of its direction
ExtendToEndIteration(ordered_pieces, downstream) ==
    LET WithPiece(nextpiece) ==
            IF nextpiece.kind = AssertionError
            THEN [kind |-> AssertionError, ordered |-> ordered_pieces]
            ELSE IF nextpiece.piece \in Range(ordered_pieces)
            THEN [kind |-> IndecipherableLinkageError, ordered |-> ordered_pieces]
            ELSE [kind |-> "continue",
                  ordered |-> ExtendByOne(ordered_pieces, nextpiece.piece, downstream)]
        WithLink(nextlink) ==
            IF nextlink.kind = IndecipherableLinkageError
            THEN [kind |-> IndecipherableLinkageError, ordered |-> ordered_pieces]
            ELSE IF nextlink.kind = ReturnedNone
            THEN [kind |-> "break", ordered |-> ordered_pieces]
            ELSE CHOOSE r \in {WithPiece(nextpiece) :
                                  nextpiece \in {GetOnePieceFromStream(
                                                     IF downstream
                                                     THEN nextlink.link[1].downstream
                                                     ELSE nextlink.link[1].upstream)}} : TRUE
    IN  IF ordered_pieces = <<>> THEN [kind |-> IndexError, ordered |-> ordered_pieces]
        ELSE CHOOSE r \in {WithLink(nextlink) :
                              nextlink \in {IF downstream
                                            THEN GetDownstreamLink(ordered_pieces[Len(ordered_pieces)])
                                            ELSE GetUpstreamLink(ordered_pieces[1])}} : TRUE

\* variant: sort_pieces closes after its downstream loop
AfterBreakOfFirstLoopOnly(position, ordered_pieces) ==
    IF CoversAllPieces(ordered_pieces) THEN Returned ELSE AssertionError

\* sort_pieces after the break of a loop: the upstream loop follows the downstream
\* one, the closing assert and the return follow the upstream one
AfterBreak(position, ordered_pieces) ==
    IF position = ExtendingDownstream THEN ExtendingUpstream
    ELSE IF CoversAllPieces(ordered_pieces) THEN Returned
    ELSE AssertionError

\* the transcript's piece collection: no piece, or pieces 1..n with any one of
\* them in the first place
PieceCollections ==
    {<<>>} \cup {<<seed>> \o SelectSeq([i \in 1..n |-> i], LAMBDA p : p # seed) :
                    <<n, seed>> \in {ns \in (1..MaxPieces) \X (1..MaxPieces) : ns[2] <= ns[1]}}

\* the store's pair lists that hold pairs of the transcript only
OwnPairLists ==
    {[k \in 1..Len(cs) |-> PairOfCode(k, cs[k], ThisTranscript)] :
        cs \in AscendingCodes(MaxPairs, 0)}

\* the store before the transcript's records are there
LoopInit ==
    /\ pieces = <<>>
    /\ pairs = <<>>
    /\ pieceFeatures = [p \in AllPieces |-> <<DownstreamFeatureOf(p), UpstreamFeatureOf(p)>>]
    /\ lastCall = NoCall
    /\ gen = IdleGen
    /\ statusObjs = <<InitialStatus>>
    /\ yielded = <<>>
    /\ NoGraph

\* the transcript's pieces and pairs get into the store, before any call
PopulateStore ==
    /\ lastCall = NoCall
    /\ pieces = <<>> /\ pairs = <<>>
    /\ pieces' \in PieceCollections
    /\ pairs' \in OwnPairLists
    /\ UNCHANGED <<pieceFeatures, lastCall, gen, statusObjs, yielded>>
    /\ UNCHANGED graphVars

\* sort_pieces up to the first loop: ordered_pieces = pieces[0:1]
BeginSortPieces ==
    /\ lastCall = NoCall
    /\ lastCall' = [op |-> "sort_pieces", piece |-> 0, kind |-> ExtendingDownstream,
                    ordered |-> IF pieces = <<>> THEN <<>> ELSE SubSeq(pieces, 1, 1),
                    link |-> <<>>]
    /\ UNCHANGED <<pieces, pairs, pieceFeatures, gen, statusObjs, yielded>>
    /\ UNCHANGED graphVars

\* one iteration of the running loop, with what follows the loop when it breaks
IterateExtendToEnd ==
    /\ lastCall.op = "sort_pieces"
    /\ lastCall.kind \in {ExtendingDownstream, ExtendingUpstream}
    /\ \E r \in {ExtendToEndIteration(lastCall.ordered, lastCall.kind = ExtendingDownstream)} :
          lastCall' =
              [lastCall EXCEPT
                  !.ordered = r.ordered,
                  !.kind = IF r.kind = "continue" THEN lastCall.kind
                           ELSE IF r.kind # "break" THEN r.kind
                           ELSE AfterBreak(lastCall.kind, r.ordered)]
    /\ UNCHANGED <<pieces, pairs, pieceFeatures, gen, statusObjs, yielded>>
    /\ UNCHANGED graphVars

LoopNext == PopulateStore \/ BeginSortPieces \/ IterateExtendToEnd

SpecLoop == LoopInit /\ [][LoopNext]_vars

\* the interpreter runs the call to its end: a step that can be taken is taken
SpecLoopFair == SpecLoop /\ WF_vars(LoopNext)

----------------------------------------------------------------------------
(* Properties of the piece orderer, iteration by iteration *)

SortRunning == lastCall.kind \in {ExtendingDownstream, ExtendingUpstream}

SortFinished == lastCall.op = "sort_pieces" /\ lastCall.kind \in LoopOutcomes

\* an iteration of a running loop adds one piece that was not in the sequence,
\* or the loop stops with the sequence as it was
IterationAddsOrStops ==
    SortRunning =>
        \/ /\ lastCall'.kind = lastCall.kind
           /\ Len(lastCall'.ordered) = Len(lastCall.ordered) + 1
           /\ Range(lastCall.ordered) \subseteq Range(lastCall'.ordered)
           /\ Cardinality(Range(lastCall'.ordered)) =
                  Cardinality(Range(lastCall.ordered)) + 1
        \/ /\ lastCall'.kind # lastCall.kind
           /\ lastCall'.ordered = lastCall.ordered

\* C33: sort_pieces terminates, returning a sequence or failing, whatever the
\* pieces and pairs are (cycles and self-links included), and every iteration of
\* an extension loop adds a piece not yet in the sequence or stops the loop.
C33_SortPiecesTerminates == <>SortFinished /\ [][IterationAddsOrStops]_vars

\* a cycle through all three pieces has been followed once round and refused
C33_Witness ==
    /\ SortFinished /\ HasCycle
    /\ lastCall.kind = IndecipherableLinkageError
    /\ Len(lastCall.ordered) = 3

\* the orders of the transcript's pieces in which every piece is joined to the
\* next one by a pair of the transcript, as the pairs alone tell them
ChainOrders ==
    {q \in [1..Len(pieces) -> Range(pieces)] :
        /\ Range(q) = Range(pieces)
        /\ \A i \in 1..(Len(pieces) - 1) :
              \E pr \in OwnPairs : /\ Holders(pr.upstream) = {q[i]}
                                   /\ Holders(pr.downstream) = {q[i + 1]}}

\* C35: for a transcript whose pieces and pairs form one chain, sort_pieces
\* returns the one order that the pairs tell, whichever piece is the first of
\* the transcript's piece collection.
C35_ResultIndependentOfSeed ==
    (SortFinished /\ IsOnePath) =>
        /\ lastCall.kind = Returned
        /\ ChainOrders = {lastCall.ordered}

\* a chain of three pieces has been ordered from a seed that is its last piece
\* and not the piece 1
C35_Witness ==
    /\ SortFinished /\ IsOnePath /\ Len(pieces) = 3
    /\ lastCall.kind = Returned
    /\ lastCall.ordered[3] = pieces[1]
    /\ pieces[1] # 1

----------------------------------------------------------------------------
(* Properties of the piece orderer: the joints of a returned sequence *)

\* C34: in a sequence that sort_pieces returns, every piece is joined to the next
\* one by a pair of the transcript whose upstream feature the earlier piece holds
\* and whose downstream feature the later piece holds.
C34_ConsecutivePiecesAreJoined ==
    (SortCalled /\ lastCall.kind = Returned) =>
        \A i \in 1..(Len(lastCall.ordered) - 1) :
            \E pr \in OwnPairs : Joins(pr, lastCall.ordered[i], lastCall.ordered[i + 1])

\* three pieces have been returned with the seed in the first place, beside a
\* pair of another transcript
C34_Witness ==
    /\ SortCalled /\ lastCall.kind = Returned
    /\ Len(lastCall.ordered) = 3
    /\ lastCall.ordered[1] = pieces[1]
    /\ OwnPairs # Range(pairs)

----------------------------------------------------------------------------
(* Handler layer: mark_for_deletion and delete_marked_underlings *)

\* a record of the store: in it, deleted in the session and not yet committed,
\* or deleted with the deletion committed
Persistent == "persistent"

DeletedInSession == "deleted in session"

Gone == "gone"

\* variant: marking deletes the record and commits at once
mark_for_deletion_at_once(self, st) ==
    Ok([st EXCEPT !.handlerObjs[self].delete_me = TRUE,
                  !.dataObjs[DataOf(st, self)].row = Gone])

\* Handler.mark_for_deletion
mark_for_deletion(self, st) == Ok([st EXCEPT !.handlerObjs[self].delete_me = TRUE])

\* sess.delete(data): the record is deleted at the next commit
session_delete(st, data) ==
    [st EXCEPT !.dataObjs[data].row = IF @ = Persistent THEN DeletedInSession ELSE @]

\* sess.commit(): the records deleted in the session leave the store and every
\* collection and reference that held them
session_commit(st) ==
    LET leaving == {id \in DOMAIN st.dataObjs : st.dataObjs[id].row = DeletedInSession}
    IN  [st EXCEPT
            !.dataObjs = [id \in DOMAIN @ |->
                             IF id \in leaving THEN [@[id] EXCEPT !.row = Gone] ELSE @[id]],
            !.edges = [n \in DOMAIN @ |->
                          SelectSeq(@[n], LAMBDA e : e[1] \notin leaving /\ e[2] \notin leaving)]]

\* self.data.features + self.data.transcribeds + self.data.translateds
SweptUnderlings(self, st) ==
    MembersOf(st.edges["super_locus_features"], DataOf(st, self))
    \o MembersOf(st.edges["super_locus_transcribeds"], DataOf(st, self))
    \o MembersOf(st.edges["super_locus_translateds"], DataOf(st, self))

\* the loop of delete_marked_underlings and the commit behind it: a record
\* without a handler ends the sweep with an AttributeError, before the commit
RECURSIVE DeleteMarked(_, _)
DeleteMarked(underlings, st) ==
    IF underlings = <<>> THEN Ok(session_commit(st))
    ELSE IF HandlerOf(st, Head(underlings)) = 0 THEN Raise(AttributeError, st)
    ELSE IF st.handlerObjs[HandlerOf(st, Head(underlings))].delete_me
    THEN DeleteMarked(Tail(underlings), session_delete(st, Head(underlings)))
    ELSE DeleteMarked(Tail(underlings), st)

\* SuperLocusHandler.delete_marked_underlings
delete_marked_underlings(self, st) == DeleteMarked(SweptUnderlings(self, st), st)

\* the locus of the store and the records under it: a transcript with a piece
\* and a pair, a translation and a feature
TheLocus == 3

SweptStore ==
    [n \in RelationshipNames |->
        CASE n = "super_locus_features" -> <<<<TheLocus, 7>>>>
          [] n = "super_locus_transcribeds" -> <<<<TheLocus, 4>>>>
          [] n = "super_locus_translateds" -> <<<<TheLocus, 6>>>>
          [] n = "transcribed_pieces" -> <<<<4, 5>>>>
          [] n = "transcribed_pairs" -> <<<<4, 10>>>>
          [] OTHER -> <<>>]

UnderLocus == {e[2] : e \in UNION {Range(SweptStore[n]) : n \in RelationshipNames}}

\* the locus has its handler; each record under it has a handler or none yet
SweepInit ==
    /\ pieces = <<>>
    /\ pairs = <<>>
    /\ pieceFeatures = [p \in AllPieces |-> <<>>]
    /\ lastCall = NoCall
    /\ gen = IdleGen
    /\ statusObjs = <<InitialStatus>>
    /\ yielded = <<>>
    /\ \E hs \in SUBSET UnderLocus :
          /\ handlerObjs = [h \in hs \cup {TheLocus} |->
                               [data |-> h, delete_me |-> FALSE, plain |-> {}]]
          /\ dataObjs = [id \in RecordIds |->
                            [handler |-> IF id \in hs \cup {TheLocus} THEN id ELSE 0,
                             plain |-> {}, row |-> Persistent]]
    /\ edges = SweptStore
    /\ calls = <<>>

\* handler.mark_for_deletion()
CallMarkForDeletion ==
    /\ \E self \in DOMAIN handlerObjs :
          \E r \in {mark_for_deletion(self, GraphState)} :
             /\ edges' = r.st.edges
             /\ dataObjs' = r.st.dataObjs
             /\ handlerObjs' = r.st.handlerObjs
             /\ calls' = <<CallRecord("mark_for_deletion", self, 0, GraphState, r)>>
    /\ UNCHANGED interpVars

\* locus_handler.delete_marked_underlings(sess)
CallDeleteMarkedUnderlings ==
    /\ \E r \in {delete_marked_underlings(TheLocus, GraphState)} :
          /\ edges' = r.st.edges
          /\ dataObjs' = r.st.dataObjs
          /\ handlerObjs' = r.st.handlerObjs
          /\ calls' = <<CallRecord("delete_marked_underlings", TheLocus, 0, GraphState, r)>>
    /\ UNCHANGED interpVars

\* locus_handler.de_link(other) for a handler of a record of the store
CallDeLinkFromLocus ==
    /\ \E other \in DOMAIN handlerObjs \ {TheLocus} :
          /\ dataObjs[other].row # Gone
          /\ \E r \in {DeLink(TheLocus, other, GraphState)} :
                /\ edges' = r.st.edges
                /\ dataObjs' = r.st.dataObjs
                /\ handlerObjs' = r.st.handlerObjs
                /\ calls' = <<CallRecord("de_link", TheLocus, other, GraphState, r)>>
    /\ UNCHANGED interpVars

SweepNext == CallMarkForDeletion \/ CallDeleteMarkedUnderlings \/ CallDeLinkFromLocus

SpecSweep == SweepInit /\ [][SweepNext]_vars

----------------------------------------------------------------------------
(* Properties of the handler layer: deferred deletion *)

\* the call that the step just made
StepOf(op) == calls' # <<>> /\ calls'[1].op = op /\ calls'[1].before = GraphState

\* the step leaves everything but the delete flag of one handler as it was
OnlyOneFlagSet ==
    /\ edges' = edges
    /\ dataObjs' = dataObjs
    /\ DOMAIN handlerObjs' = DOMAIN handlerObjs
    /\ \E self \in DOMAIN handlerObjs :
          handlerObjs' = [handlerObjs EXCEPT ![self].delete_me = TRUE]

\* a record whose place in the store changes is one whose handler was marked,
\* and the step is a sweep
DeletedOnlyBySweepOfMarked ==
    \A id \in DOMAIN dataObjs :
        dataObjs'[id].row # dataObjs[id].row =>
            /\ StepOf("delete_marked_underlings")
            /\ dataObjs[id].handler # 0
            /\ handlerObjs[dataObjs[id].handler].delete_me

\* C31: mark_for_deletion changes the delete flag of its handler and nothing
\* else, and whatever the calls are, a record leaves the store only in a step of
\* delete_marked_underlings and only when its handler was marked before that step.
C31_DeletionIsDeferred ==
    [][/\ StepOf("mark_for_deletion") => OnlyOneFlagSet
       /\ DeletedOnlyBySweepOfMarked]_vars

\* a sweep has returned with a marked record gone and a record persisting whose
\* handler was marked only after the sweep before
C31_Witness ==
    /\ calls # <<>> /\ calls[1].op = "delete_marked_underlings" /\ calls[1].kind = Returned
    /\ \E id \in UnderLocus : dataObjs[id].row = Gone
    /\ \E id \in UnderLocus :
          /\ calls[1].before.dataObjs[id].row = Persistent
          /\ dataObjs[id].row = Persistent
          /\ dataObjs[id].handler # 0
          /\ ~handlerObjs[dataObjs[id].handler].delete_me

\* the records that are reached from the locus: its features, transcripts and
\* translations, and the pieces and pairs of its transcripts
ReachableFrom(st, locus) ==
    LET direct == Range(MembersOf(st.edges["super_locus_features"], locus))
                  \cup Range(MembersOf(st.edges["super_locus_transcribeds"], locus))
                  \cup Range(MembersOf(st.edges["super_locus_translateds"], locus))
    IN  direct
        \cup UNION {Range(MembersOf(st.edges["transcribed_pieces"], t))
                    \cup Range(MembersOf(st.edges["transcribed_pairs"], t)) : t \in direct}

IsMarked(st, id) == st.dataObjs[id].handler # 0 /\ st.handlerObjs[st.dataObjs[id].handler].delete_me

\* C32 as the specification states it: after a sweep that returns, every marked
\* record reached from the locus is gone from the store and no unmarked record
\* is. The code does not do this: the sweep goes through the locus's features,
\* transcripts and translations only, and a marked piece or pair stays.
C32_AsStated ==
    (calls # <<>> /\ calls[1].op = "delete_marked_underlings" /\ calls[1].kind = Returned) =>
        /\ \A id \in ReachableFrom(calls[1].before, TheLocus) :
              IsMarked(calls[1].before, id) => calls[1].after.dataObjs[id].row = Gone
        /\ \A id \in DOMAIN dataObjs :
              calls[1].after.dataObjs[id].row # Persistent => IsMarked(calls[1].before, id)

----------------------------------------------------------------------------
(* Stepper of the numerifier: step and the generator step_to_end *)

MaxEnd == 8

MaxBy == 4

\* variant: the new position is not cut at the end
step_past_end(stepper) ==
    [prev |-> stepper.at, new |-> stepper.at + stepper.by,
     stepper |-> [stepper EXCEPT !.at = stepper.at + stepper.by]]

\* Stepper.step: the pair (prev, new) and the stepper with self.at = new
step(stepper) ==
    LET prev == stepper.at
        new == IF prev + stepper.by < stepper.end THEN prev + stepper.by ELSE stepper.end
    IN  [prev |-> prev, new |-> new, stepper |-> [stepper EXCEPT !.at = new]]

\* Stepper(end, by) and partitioner.step_to_end(), not yet pulled
StepInit ==
    /\ pieces = <<>>
    /\ pairs = <<>>
    /\ pieceFeatures = [p \in AllPieces |-> <<>>]
    /\ lastCall = NoCall
    /\ \E end \in 0..MaxEnd, by \in 1..MaxBy :
          gen = [state |-> "created", at |-> 0, end |-> end, by |-> by]
    /\ statusObjs = <<InitialStatus>>
    /\ yielded = <<>>
    /\ NoGraph

\* next() on step_to_end: the loop test, then the yield of self.step() or the end
PullStep ==
    /\ gen.state \in {"created", "suspended"}
    /\ IF gen.at < gen.end
       THEN \E r \in {step([at |-> gen.at, end |-> gen.end, by |-> gen.by])} :
               /\ gen' = [gen EXCEPT !.state = "suspended", !.at = r.stepper.at]
               /\ yielded' = Append(yielded, <<r.prev, r.new>>)
       ELSE /\ gen' = [gen EXCEPT !.state = "exhausted"]
            /\ yielded' = yielded
    /\ UNCHANGED <<pieces, pairs, pieceFeatures, lastCall, statusObjs>>
    /\ UNCHANGED graphVars

StepNext == PullStep

SpecStep == StepInit /\ [][StepNext]_vars

\* list(partitioner.step_to_end()) pulls until the generator ends
SpecStepFair == SpecStep /\ WF_vars(StepNext)

----------------------------------------------------------------------------
(* Properties of the stepper *)

\* the intervals tile [0, end) in steps of `by`, the last one cut at the end
TilesToEnd(intervals, end, by) ==
    LET n == Len(intervals)
    IN  /\ (n = 0) <=> (end = 0)
        /\ n > 0 => /\ intervals[1][1] = 0
                    /\ intervals[n][2] = end
                    /\ intervals[n][2] - intervals[n][1] \in 1..by
        /\ \A i \in 1..(n - 1) : /\ intervals[i][2] = intervals[i + 1][1]
                                 /\ intervals[i][2] - intervals[i][1] = by

\* C40: for end >= 0 and by >= 1, step_to_end comes to its end, and the intervals
\* it has yielded by then tile [0, end): the first starts at 0, each ends where
\* the next starts, the last ends at end, each is `by` long but the last, which
\* is from 1 to `by` long, and there is none when end is 0.
C40_StepToEndTiles ==
    /\ <>(gen.state = "exhausted")
    /\ [](gen.state = "exhausted" => TilesToEnd(yielded, gen.end, gen.by))

\* the generator has ended after three intervals, the last one shorter than by
C40_Witness ==
    /\ gen.state = "exhausted"
    /\ Len(yielded) = 3
    /\ yielded[3][2] - yielded[3][1] < gen.by

----------------------------------------------------------------------------
(* Properties of the triple stream: the store is only read *)

====
